---- MODULE Spec2Model ----
(***************************************************************************)
(* AdaFaceWrapper (src/adaface/adaface_wrapper.py): the vocabulary         *)
(* extender, the embedding injector and the prompt composer, as a state    *)
(* machine over one wrapper instance, its tokenizer and the text encoder's *)
(* input embedding table.                                                  *)
(*                                                                         *)
(* Strings are sequences of one-character strings, so that formatting,     *)
(* joining and the regular expressions of update_prompt are computed       *)
(* character by character.  An embedding row is a record that names where  *)
(* the row comes from (its width of 768 numbers is not modelled).          *)
(***************************************************************************)
EXTENDS Integers, Sequences, FiniteSets, TLC

\* ------------------------------------------------------------------ bounds

\* Largest num_id_vecs of one encoder in the enumerated configurations.
MaxIdVecs == 2
\* Rows the embedding table may have beyond the tokenizer's length at start.
MaxPad == 1
\* Longest enumerated raw prompt, in characters.
MaxPromptLen == 4

\* --------------------------------------------------------------- sequences

RECURSIVE SumSeq(_)
\* np.sum over a list of ints.
SumSeq(s) ==
    IF s = <<>> THEN 0 ELSE Head(s) + SumSeq(Tail(s))

RECURSIVE Concat(_)
\* Concatenation of a sequence of sequences (list.extend in a loop, torch.cat).
Concat(ss) ==
    IF ss = <<>> THEN <<>> ELSE Head(ss) \o Concat(Tail(ss))

RECURSIVE Join(_, _)
\* sep.join(ss) for a sequence ss of strings.
Join(ss, sep) ==
    IF ss = <<>> THEN <<>>
    ELSE IF Len(ss) = 1 THEN Head(ss)
    ELSE Head(ss) \o sep \o Join(Tail(ss), sep)

Range(s) == {s[k] : k \in 1..Len(s)}

\* The 1-based position of x in s, 0 when absent.
IndexOf(s, x) ==
    IF x \in Range(s) THEN CHOOSE k \in 1..Len(s) : s[k] = x /\ \A m \in 1..(k-1) : s[m] # x
    ELSE 0

\* ----------------------------------------------------------------- strings

Digits == <<"0", "1", "2", "3", "4", "5", "6", "7", "8", "9">>

RECURSIVE Dec(_)
\* str(n) for n >= 0, as an f-string formats an int.
Dec(n) ==
    IF n < 10 THEN <<Digits[n + 1]>>
    ELSE Dec(n \div 10) \o <<Digits[(n % 10) + 1]>>

\* f"{self.subject_string}_{i}_{j}"
PlaceholderToken(s, i, j) ==
    s \o <<"_">> \o Dec(i) \o <<"_">> \o Dec(j)

Space == <<" ">>
Bar == <<" ", "|", " ">>


\* ------------------------------------------------------------ configuration

\* "arc2face" and "consistentID" are the encoder types update_prompt names;
\* adaface_encoder_types is a constructor argument the wrapper never validates,
\* and OtherType stands for any other value of it.
OtherType == "other"
EncoderTypes == {"arc2face", "consistentID", OtherType}

\* One identity encoder: its type and its num_id_vecs.
EncoderSpecs == [type : EncoderTypes, n : 0..MaxIdVecs]

\* adaface_encoder_types = ["arc2face", "consistentID"] with 16 and 4 id vectors:
\* total_num_id_vecs = 20, tokens z_0_0 ... z_0_15, z_1_0 ... z_1_3.
E2EEncoders ==
    << [type |-> "arc2face", n |-> 16], [type |-> "consistentID", n |-> 4] >>

\* The encoder lists a wrapper is constructed with.
EncoderLists ==
    {<<>>} \cup {<<e>> : e \in EncoderSpecs}
           \cup {<<e1, e2>> : e1 \in EncoderSpecs, e2 \in EncoderSpecs}
           \cup {E2EEncoders}

\* subject_string='z'
DefaultSubjectString == <<"z">>
SubjectStrings == {DefaultSubjectString}

\* The tokens of the base model's tokenizer (ids 0 and 1).
BaseVocab == << <<"a">>, <<"p", "h", "o", "t", "o">> >>

\* ---------------------------------------------------------- embedding rows

\* A row of the pretrained table, and a row resize_token_embeddings creates.
OrigRow(r) == [kind |-> "orig", batch |-> "", enc |-> 0, idx |-> r]
FreshRow(r) == [kind |-> "fresh", batch |-> "", enc |-> 0, idx |-> r]
\* Row j of what encoder i returns for subject image set b (subject, negative).
SubjRow(b, i, j) == [kind |-> "subj", batch |-> b, enc |-> i, idx |-> j]
NegRow(b, i, j) == [kind |-> "neg", batch |-> b, enc |-> i, idx |-> j]
\* A row of torch.zeros_like(adaface_subj_embs).
ZeroRow == [kind |-> "zero", batch |-> "", enc |-> 0, idx |-> 0]

\* The subject image sets prepare_adaface_embeddings is called with.
SubjectSets == {"subject1", "subject2"}

\* -------------------------------------------------- tokenizer, text encoder

RECURSIVE AddTokens(_, _)
\* tokenizer.add_tokens(new): every token of new that the vocabulary does not
\* hold yet gets the next free id; the result is the extended vocabulary.
AddTokens(tok, new) ==
    IF new = <<>> THEN tok
    ELSE IF Head(new) \in Range(tok) THEN AddTokens(tok, Tail(new))
    ELSE AddTokens(Append(tok, Head(new)), Tail(new))

\* The int add_tokens returns: the number of tokens it added.
NumAdded(tok, new) == Len(AddTokens(tok, new)) - Len(tok)

\* tokenizer.convert_tokens_to_ids(tokens); ids count from 0.
ConvertTokensToIds(tok, tokens) ==
    [k \in 1..Len(tokens) |-> IndexOf(tok, tokens[k]) - 1]

\* Mutant of ResizeTokenEmbeddings: n is taken as the number of rows to add.
ResizeByCount(tbl, n) ==
    [r \in 1..(Len(tbl) + n) |-> IF r <= Len(tbl) THEN tbl[r] ELSE FreshRow(r - 1)]

\* text_encoder.resize_token_embeddings(n): the first min(old, n) rows are
\* kept, rows past the old size are new.
ResizeTokenEmbeddings(tbl, n) ==
    [r \in 1..n |-> IF r <= Len(tbl) THEN tbl[r] ELSE FreshRow(r - 1)]

\* ------------------------------------------------------------------- state

VARIABLES
    adaface_encoder_types,           \* self.adaface_encoder_types
    encoders_num_id_vecs,            \* self.encoders_num_id_vecs
    subject_string,                  \* self.subject_string
    tokenizer,                       \* self.pipeline.tokenizer: token at position p has id p - 1
    token_embeds,                    \* text_encoder.get_input_embeddings().weight: row r is at r + 1
    all_placeholder_tokens,          \* self.all_placeholder_tokens
    placeholder_tokens_strs,         \* self.placeholder_tokens_strs
    all_placeholder_tokens_str,      \* self.all_placeholder_tokens_str
    placeholder_token_ids,           \* self.placeholder_token_ids
    old_weight_shape,                \* the rows of old_weight_shape, read at line 247
    all_teacher_neg_id_prompt_embs,  \* self.all_teacher_neg_id_prompt_embs
    attrs,                           \* the attributes above that have been assigned
    pipeline_name,                   \* self.pipeline_name
    base_model_path,                 \* self.base_model_path
    adaface_encoder_scales,          \* self.adaface_encoder_scales
    id2ada_prompt_encoders,          \* self.id2ada_prompt_encoders: type and scale of each
    pipeline,                        \* self.pipeline
    apply_neg_img_prompt,            \* self.apply_neg_img_prompt
    phase,                           \* "new" (__init__ at line 71), "constructing" (at line 73),
                                     \* "ready", "failed" (__init__ raised)
    call                             \* the last call: what it was given, what it raised or returned,
                                     \* what it handed to the diffusion pipeline

vars ==
    << adaface_encoder_types, encoders_num_id_vecs, subject_string, tokenizer,
       token_embeds, all_placeholder_tokens, placeholder_tokens_strs,
       all_placeholder_tokens_str, placeholder_token_ids, old_weight_shape,
       all_teacher_neg_id_prompt_embs, attrs, pipeline_name, base_model_path,
       adaface_encoder_scales, id2ada_prompt_encoders, pipeline,
       apply_neg_img_prompt, phase, call >>

config_vars == << adaface_encoder_types, encoders_num_id_vecs, subject_string >>

pipeline_vars ==
    << pipeline_name, base_model_path, adaface_encoder_scales, id2ada_prompt_encoders,
       pipeline, apply_neg_img_prompt >>

token_vars ==
    << all_placeholder_tokens, placeholder_tokens_strs, all_placeholder_tokens_str,
       placeholder_token_ids, old_weight_shape >>

\* The record of one call: the operation, the exception it raised ("none" when
\* it returned), its argument, its return value and the arguments of the calls
\* it made to the diffusion pipeline.
CallSent(op, exc, arg, ret, sent) ==
    [op |-> op, exc |-> exc, arg |-> arg, ret |-> ret, sent |-> sent]

\* The record of a call that makes no call to the diffusion pipeline.
Call(op, exc, arg, ret) == CallSent(op, exc, arg, ret, <<>>)

\* ------------------------------------------------------ vocabulary extender

\* np.sum(self.encoders_num_id_vecs)
TotalNumIdVecs(nums) == SumSeq(nums)

\* Mutant of EncoderTokens: the local index counts from 1.
EncoderTokensFromOne(s, nums, i) ==
    [j \in 1..nums[i] |-> PlaceholderToken(s, i - 1, j)]

\* The list placeholder_tokens of iteration i (1-based here, i - 1 in the code).
EncoderTokens(s, nums, i) ==
    [j \in 1..nums[i] |-> PlaceholderToken(s, i - 1, j - 1)]

\* self.all_placeholder_tokens once the loop over the encoders has ended.
AllPlaceholderTokens(s, nums) ==
    Concat([i \in 1..Len(nums) |-> EncoderTokens(s, nums, i)])

RECURSIVE LocalTokensStr(_, _, _)
\* The local placeholder_tokens_str when iteration i reaches line 230: it is
\* assigned only inside the inner loop, so an encoder with no id vector leaves
\* it as the iteration before left it.
LocalTokensStr(s, nums, i) ==
    IF nums[i] > 0 THEN Join(EncoderTokens(s, nums, i), Space)
    ELSE LocalTokensStr(s, nums, i - 1)

\* Line 230 reads placeholder_tokens_str before any assignment to it.
StrUnbound(nums) == Len(nums) >= 1 /\ nums[1] = 0

\* self.placeholder_tokens_strs once the loop has ended.
PlaceholderTokensStrs(s, nums) ==
    [i \in 1..Len(nums) |-> LocalTokensStr(s, nums, i)]

\* Mutant of TooFewIdVecs: the check lets a total of 0 pass.
TooFewIdVecsBelowZero(nums) == TotalNumIdVecs(nums) < 0

\* if np.sum(self.encoders_num_id_vecs) < 1: raise ValueError
TooFewIdVecs(nums) == TotalNumIdVecs(nums) < 1

\* Mutant of AddedCountMismatch: only too many added tokens are an error.
AddedCountAbove(num_added, nums) == num_added > TotalNumIdVecs(nums)

\* if num_added_tokens != np.sum(self.encoders_num_id_vecs): raise ValueError
AddedCountMismatch(num_added, nums) == num_added # TotalNumIdVecs(nums)

\* __init__ raising leaves no wrapper; a later call on a wrapper returns to it.
PhaseAfter(exc) ==
    IF phase = "constructing" THEN (IF exc = "none" THEN "ready" ELSE "failed")
    ELSE phase

\* extend_tokenizer_and_text_encoder(), called by __init__ and callable again.
Extend ==
    /\ phase \in {"constructing", "ready"}
    /\ LET s == subject_string
           nums == encoders_num_id_vecs
           all == AllPlaceholderTokens(s, nums)
           strs == PlaceholderTokensStrs(s, nums)
           tok1 == AddTokens(tokenizer, all)
       IN  IF TooFewIdVecs(nums) THEN
               /\ call' = Call("extend", "ValueError", <<>>, <<>>)
               /\ phase' = PhaseAfter("ValueError")
               /\ UNCHANGED << tokenizer, token_embeds, token_vars, attrs >>
           ELSE IF StrUnbound(nums) THEN
               /\ all_placeholder_tokens' = <<>>
               /\ placeholder_tokens_strs' = <<>>
               /\ attrs' = attrs \cup {"all_placeholder_tokens", "placeholder_tokens_strs"}
               /\ call' = Call("extend", "UnboundLocalError", <<>>, <<>>)
               /\ phase' = PhaseAfter("UnboundLocalError")
               /\ UNCHANGED << tokenizer, token_embeds, all_placeholder_tokens_str,
                               placeholder_token_ids, old_weight_shape >>
           ELSE IF AddedCountMismatch(NumAdded(tokenizer, all), nums) THEN
               /\ all_placeholder_tokens' = all
               /\ placeholder_tokens_strs' = strs
               /\ all_placeholder_tokens_str' = Join(strs, Bar)
               /\ attrs' = attrs \cup {"all_placeholder_tokens", "placeholder_tokens_strs",
                                       "all_placeholder_tokens_str"}
               /\ tokenizer' = tok1
               /\ call' = Call("extend", "ValueError", <<>>, <<>>)
               /\ phase' = PhaseAfter("ValueError")
               /\ UNCHANGED << token_embeds, placeholder_token_ids, old_weight_shape >>
           ELSE
               /\ all_placeholder_tokens' = all
               /\ placeholder_tokens_strs' = strs
               /\ all_placeholder_tokens_str' = Join(strs, Bar)
               /\ tokenizer' = tok1
               /\ placeholder_token_ids' = ConvertTokensToIds(tok1, all)
               /\ old_weight_shape' = Len(token_embeds)
               /\ token_embeds' = ResizeTokenEmbeddings(token_embeds, Len(tok1))
               /\ attrs' = attrs \cup {"all_placeholder_tokens", "placeholder_tokens_strs",
                                       "all_placeholder_tokens_str", "placeholder_token_ids"}
               /\ call' = Call("extend", "none", <<>>, <<>>)
               /\ phase' = PhaseAfter("none")
    /\ UNCHANGED << config_vars, pipeline_vars, all_teacher_neg_id_prompt_embs >>

\* ------------------------------------------------------- embedding injector

RECURSIVE InjectLoopFirstRow(_, _, _, _)
\* Mutant of InjectLoop: every placeholder row gets subj_embs[0].
InjectLoopFirstRow(tbl, ids, embs, i) ==
    IF i > Len(ids) THEN [tbl |-> tbl, exc |-> "none"]
    ELSE IF i > Len(embs) \/ ids[i] + 1 > Len(tbl) \/ ids[i] < 0 THEN
        [tbl |-> tbl, exc |-> "IndexError"]
    ELSE InjectLoopFirstRow([tbl EXCEPT ![ids[i] + 1] = embs[1]], ids, embs, i + 1)

RECURSIVE InjectLoopRowBelow(_, _, _, _)
\* Mutant of InjectLoop: each embedding is written one row below its token's.
InjectLoopRowBelow(tbl, ids, embs, i) ==
    IF i > Len(ids) THEN [tbl |-> tbl, exc |-> "none"]
    ELSE IF i > Len(embs) \/ ids[i] + 1 > Len(tbl) \/ ids[i] < 1 THEN
        [tbl |-> tbl, exc |-> "IndexError"]
    ELSE InjectLoopRowBelow([tbl EXCEPT ![ids[i]] = embs[i]], ids, embs, i + 1)

RECURSIVE InjectLoop(_, _, _, _)
\* for i, token_id in enumerate(self.placeholder_token_ids):
\*     token_embeds[token_id] = subj_embs[i]
\* from iteration i on (1-based): the table when the loop ends, and the
\* exception that ended it.  Indexing past the end of subj_embs or of the
\* table raises IndexError; the rows written before it stay written.
InjectLoop(tbl, ids, embs, i) ==
    IF i > Len(ids) THEN [tbl |-> tbl, exc |-> "none"]
    ELSE IF i > Len(embs) \/ ids[i] + 1 > Len(tbl) \/ ids[i] < 0 THEN
        [tbl |-> tbl, exc |-> "IndexError"]
    ELSE InjectLoop([tbl EXCEPT ![ids[i] + 1] = embs[i]], ids, embs, i + 1)

\* Mutant of UpdateTextEncoderSubjEmbs: rows that hold injected embeddings
\* already are not written again.
UpdateOnceOnly(tbl, ids, subj_embs) ==
    IF \E k \in 1..Len(ids) :
          ids[k] + 1 \in 1..Len(tbl) /\ tbl[ids[k] + 1].kind \in {"subj", "arg"}
    THEN [tbl |-> tbl, exc |-> "none"]
    ELSE InjectLoop(tbl, ids, subj_embs, 1)

\* update_text_encoder_subj_embs(subj_embs) on the table tbl.
UpdateTextEncoderSubjEmbs(tbl, ids, subj_embs) == InjectLoop(tbl, ids, subj_embs, 1)

\* A row of a tensor a caller passes to update_text_encoder_subj_embs itself.
ArgRow(k) == [kind |-> "arg", batch |-> "", enc |-> 0, idx |-> k]

\* The tensors a caller passes: one row fewer than there are placeholder ids,
\* as many, or one more.
SubjEmbsArgs(n) ==
    { [k \in 1..len |-> ArgRow(k - 1)] : len \in {m \in (n - 1)..(n + 1) : m >= 0} }

\* update_text_encoder_subj_embs(subj_embs), called on a constructed wrapper.
Inject(subj_embs) ==
    /\ phase = "ready"
    /\ LET r == UpdateTextEncoderSubjEmbs(token_embeds, placeholder_token_ids, subj_embs)
       IN  /\ token_embeds' = r.tbl
           /\ call' = Call("inject", r.exc, subj_embs, <<>>)
    /\ UNCHANGED << config_vars, pipeline_vars, tokenizer, token_vars, all_teacher_neg_id_prompt_embs,
                    attrs, phase >>

\* ------------------------------------------------- prepare_adaface_embeddings

\* adaface_subj_embs of encoder i (1-based) for subject image set b:
\* num_id_vecs rows.
EncoderSubjEmbs(nums, b, i) == [j \in 1..nums[i] |-> SubjRow(b, i - 1, j - 1)]

\* Mutant of EncoderNegEmbs: an encoder that returns None contributes no rows.
EncoderNegEmbsSkipNone(nums, b, i, has_neg) ==
    IF has_neg THEN [j \in 1..nums[i] |-> NegRow(b, i - 1, j - 1)] ELSE <<>>

\* teacher_neg_id_prompt_embs of encoder i, or torch.zeros_like(adaface_subj_embs)
\* when the encoder returned None.
EncoderNegEmbs(nums, b, i, has_neg) ==
    [j \in 1..nums[i] |-> IF has_neg THEN NegRow(b, i - 1, j - 1) ELSE ZeroRow]

\* Mutant of AllAdafaceSubjEmbs: the encoders' blocks are joined last first.
AllAdafaceSubjEmbsReversed(nums, b) ==
    Concat([i \in 1..Len(nums) |-> EncoderSubjEmbs(nums, b, Len(nums) + 1 - i)])

\* torch.cat(all_adaface_subj_embs, dim=0)
AllAdafaceSubjEmbs(nums, b) ==
    Concat([i \in 1..Len(nums) |-> EncoderSubjEmbs(nums, b, i)])

\* torch.cat(all_teacher_neg_id_prompt_embs, dim=0)
AllTeacherNegEmbs(nums, b, has_neg) ==
    Concat([i \in 1..Len(nums) |-> EncoderNegEmbs(nums, b, i, has_neg[i])])

\* Which encoders return teacher_neg_id_prompt_embs: "For consistentID,
\* teacher_neg_id_prompt_embs: [1, 4, 768].  For arc2face,
\* teacher_neg_id_prompt_embs: None."; either for another type.
HasNegChoices(types) ==
    { f \in [1..Len(types) -> BOOLEAN] :
        \A i \in 1..Len(types) : /\ types[i] = "arc2face" => ~f[i]
                                 /\ types[i] = "consistentID" => f[i] }

\* Mutant of PrepareAdafaceEmbeddings: the table is written and the negative
\* batch stored before the failure of an encoder is raised.
PrepareWritesBeforeRaising(b, has_neg, fails, update_text_encoder) ==
    /\ phase = "ready"
    /\ LET nums == encoders_num_id_vecs
           subj == AllAdafaceSubjEmbs(nums, b)
           neg == AllTeacherNegEmbs(nums, b, has_neg)
           r == IF update_text_encoder
                THEN UpdateTextEncoderSubjEmbs(token_embeds, placeholder_token_ids, subj)
                ELSE [tbl |-> token_embeds, exc |-> "none"]
       IN  IF r.exc # "none" THEN
               /\ token_embeds' = r.tbl
               /\ call' = Call("prepare", r.exc, <<b, update_text_encoder, has_neg>>, <<>>)
               /\ UNCHANGED << all_teacher_neg_id_prompt_embs, attrs >>
           ELSE
               /\ token_embeds' = r.tbl
               /\ all_teacher_neg_id_prompt_embs' = neg
               /\ attrs' = attrs \cup {"all_teacher_neg_id_prompt_embs"}
               /\ call' = IF fails
                          THEN Call("prepare", "EncoderError", <<b, update_text_encoder, <<>>>>, <<>>)
                          ELSE Call("prepare", "none", <<b, update_text_encoder, has_neg>>,
                                    <<subj, neg>>)
    /\ UNCHANGED << config_vars, pipeline_vars, tokenizer, token_vars, phase >>

\* prepare_adaface_embeddings(..., update_text_encoder) for subject image set b.
\* has_neg[i]: encoder i returns negative embeddings; fails: the
\* generate_adaface_embeddings of some encoder raises.  call.arg is the subject
\* set, the flag and, once the encoders have returned, has_neg.
PrepareAdafaceEmbeddings(b, has_neg, fails, update_text_encoder) ==
    /\ phase = "ready"
    /\ LET nums == encoders_num_id_vecs
           subj == AllAdafaceSubjEmbs(nums, b)
           neg == AllTeacherNegEmbs(nums, b, has_neg)
           r == IF update_text_encoder
                THEN UpdateTextEncoderSubjEmbs(token_embeds, placeholder_token_ids, subj)
                ELSE [tbl |-> token_embeds, exc |-> "none"]
       IN  IF fails THEN
               /\ call' = Call("prepare", "EncoderError", <<b, update_text_encoder, <<>>>>, <<>>)
               /\ UNCHANGED << token_embeds, all_teacher_neg_id_prompt_embs, attrs >>
           ELSE IF r.exc # "none" THEN
               /\ token_embeds' = r.tbl
               /\ call' = Call("prepare", r.exc, <<b, update_text_encoder, has_neg>>, <<>>)
               /\ UNCHANGED << all_teacher_neg_id_prompt_embs, attrs >>
           ELSE
               /\ token_embeds' = r.tbl
               /\ all_teacher_neg_id_prompt_embs' = neg
               /\ attrs' = attrs \cup {"all_teacher_neg_id_prompt_embs"}
               /\ call' = Call("prepare", "none", <<b, update_text_encoder, has_neg>>, <<subj, neg>>)
    /\ UNCHANGED << config_vars, pipeline_vars, tokenizer, token_vars, phase >>

\* ------------------------------------------------------------ prompt composer

Letters ==
    {"a", "b", "c", "d", "e", "f", "g", "h", "i", "j", "k", "l", "m", "n", "o", "p",
     "q", "r", "s", "t", "u", "v", "w", "x", "y", "z",
     "A", "B", "C", "D", "E", "F", "G", "H", "I", "J", "K", "L", "M", "N", "O", "P",
     "Q", "R", "S", "T", "U", "V", "W", "X", "Y", "Z"}

\* What \w and \s match.
IsWordChar(c) == c \in Letters \cup Range(Digits) \cup {"_"}
IsSpaceChar(c) == c \in {" ", "\t", "\n", "\r"}

\* \b at position i of p (before p[i]; i = Len(p) + 1 is the end of the string).
WordBoundary(p, i) ==
    (i > 1 /\ IsWordChar(p[i - 1])) # (i <= Len(p) /\ IsWordChar(p[i]))

\* The literal lit matches p at position i.
LiteralAt(p, i, lit) ==
    /\ i + Len(lit) - 1 <= Len(p)
    /\ \A k \in 1..Len(lit) : p[i + k - 1] = lit[k]

\* ,? at position i: the position after it.
AfterOptionalComma(p, i) ==
    IF i <= Len(p) /\ p[i] = "," THEN i + 1 ELSE i

\* subject_string + r'\b,?' matched at position i: the position after the
\* match, 0 when there is none.
MatchSubjectTail(p, i, subj) ==
    IF LiteralAt(p, i, subj) /\ WordBoundary(p, i + Len(subj))
    THEN AfterOptionalComma(p, i + Len(subj))
    ELSE 0

\* Mutant of MatchSubject: the pattern has no leading \b.
MatchSubjectNoBoundary(p, i, subj) == MatchSubjectTail(p, i, subj)

\* r'\b' + subject_string + r'\b,?' matched at position i.
MatchSubject(p, i, subj) ==
    IF WordBoundary(p, i) THEN MatchSubjectTail(p, i, subj) ELSE 0

\* The positions \s+ can end at when it starts at i, the greedy one last.
SpaceRunEnds(p, i) ==
    {m \in (i + 1)..(Len(p) + 1) : \A k \in i..(m - 1) : IsSpaceChar(p[k])}

\* r'\s+' + subject_string + r'\b,?' matched at position i: \s+ takes the
\* longest run of white space after which the rest matches.
MatchSpacesSubject(p, i, subj) ==
    LET ok == {m \in SpaceRunEnds(p, i) : MatchSubjectTail(p, m, subj) > 0}
    IN  IF ok = {} THEN 0
        ELSE MatchSubjectTail(p, CHOOSE m \in ok : \A x \in ok : x <= m, subj)

\* The alternatives of (a|an|the), in the order the regex tries them.
Articles == << <<"a">>, <<"a", "n">>, <<"t", "h", "e">> >>

RECURSIVE MatchArticles(_, _, _, _)
\* (a|an|the)\s+<subject>\b,? at position i, from alternative k on.
MatchArticles(p, i, subj, k) ==
    IF k > Len(Articles) THEN 0
    ELSE LET e == IF LiteralAt(p, i, Articles[k])
                  THEN MatchSpacesSubject(p, i + Len(Articles[k]), subj)
                  ELSE 0
         IN  IF e > 0 THEN e ELSE MatchArticles(p, i, subj, k + 1)

\* r'\b(a|an|the)\s+' + subject_string + r'\b,?' matched at position i.
MatchArticleSubject(p, i, subj) ==
    IF WordBoundary(p, i) THEN MatchArticles(p, i, subj, 1) ELSE 0

RECURSIVE SubArticleSubject(_, _, _)
\* re.sub(r'\b(a|an|the)\s+' + subject_string + r'\b,?', "", p), from position i on:
\* the leftmost match is dropped and the scan goes on after it.
SubArticleSubject(p, i, subj) ==
    IF i > Len(p) THEN <<>>
    ELSE LET e == MatchArticleSubject(p, i, subj)
         IN  IF e > 0 THEN SubArticleSubject(p, e, subj)
             ELSE <<p[i]>> \o SubArticleSubject(p, i + 1, subj)

RECURSIVE SubSubject(_, _, _)
\* re.sub(r'\b' + subject_string + r'\b,?', "", p), from position i on.
SubSubject(p, i, subj) ==
    IF i > Len(p) THEN <<>>
    ELSE LET e == MatchSubject(p, i, subj)
         IN  IF e > 0 THEN SubSubject(p, e, subj)
             ELSE <<p[i]>> \o SubSubject(p, i + 1, subj)

\* The two substitutions of update_prompt, one after the other.
RemoveSubject(p, subj) ==
    SubSubject(SubArticleSubject(p, 1, subj), 1, subj)

\* Mutant of PlaceTokens: the two branches are exchanged.
PlaceTokensSwapped(prompt, type, tokens_str) ==
    IF type = "consistentID" THEN tokens_str \o Space \o prompt
    ELSE IF type = "arc2face" THEN prompt \o Space \o tokens_str
    ELSE prompt

\* One iteration of the loop over the encoders: arc2face tokens go in front of
\* the prompt, consistentID tokens after it, and there is no other branch.
PlaceTokens(prompt, type, tokens_str) ==
    IF type = "arc2face" THEN tokens_str \o Space \o prompt
    ELSE IF type = "consistentID" THEN prompt \o Space \o tokens_str
    ELSE prompt

RECURSIVE PlaceAllLastFirst(_, _, _, _)
\* Mutant of PlaceAll: the loop runs over the encoders from the last to the
\* first.
PlaceAllLastFirst(prompt, types, strs, i) ==
    IF i > Len(strs) THEN prompt
    ELSE PlaceTokens(PlaceAllLastFirst(prompt, types, strs, i + 1), types[i], strs[i])

RECURSIVE PlaceAll(_, _, _, _)
\* for i, placeholder_tokens_str in enumerate(self.placeholder_tokens_strs), from i on.
PlaceAll(prompt, types, strs, i) ==
    IF i > Len(strs) THEN prompt
    ELSE PlaceAll(PlaceTokens(prompt, types[i], strs[i]), types, strs, i + 1)

\* prompt=None
NonePrompt == <<"None">>

\* Mutant of OrEmpty: a None prompt is not replaced.
KeepPrompt(prompt) == prompt

\* if prompt is None: prompt = ""
OrEmpty(prompt) == IF prompt = NonePrompt THEN <<>> ELSE prompt

\* Mutant of UpdatedPrompt: once prepare_adaface_embeddings has stored a
\* negative batch, the prompt is returned without the token strings.
UpdatedPromptAfterPrepare(prompt, subj, types, strs) ==
    IF "all_teacher_neg_id_prompt_embs" \in attrs THEN OrEmpty(prompt)
    ELSE PlaceAll(RemoveSubject(OrEmpty(prompt), subj), types, strs, 1)

\* What update_prompt(prompt) returns.
UpdatedPrompt(prompt, subj, types, strs) ==
    PlaceAll(RemoveSubject(OrEmpty(prompt), subj), types, strs, 1)

\* update_prompt(prompt), called on a constructed wrapper.
UpdatePrompt(prompt) ==
    /\ phase = "ready"
    /\ call' = Call("update_prompt", "none", prompt,
                    UpdatedPrompt(prompt, subject_string, adaface_encoder_types,
                                  placeholder_tokens_strs))
    /\ UNCHANGED << config_vars, pipeline_vars, tokenizer, token_embeds, token_vars,
                    all_teacher_neg_id_prompt_embs, attrs, phase >>

\* "a z in the jungle"
E2EPrompt == <<"a", " ", "z", " ", "i", "n", " ", "t", "h", "e", " ", "j", "u", "n", "g", "l", "e">>

\* Raw prompts with the articles and the words the enumerated alphabet cannot spell.
NamedPrompts ==
    { E2EPrompt,
      <<"a", "n", " ", "z">>,
      <<"t", "h", "e", " ", "z", ",", " ", "o", "n", " ", "a", " ", "z", "e", "b", "r", "a">>,
      <<"t", "h", "a", "n", " ", "z">>,
      <<"A", " ", "z">>,
      <<"a", " ", " ", "z", ",", ",", " ", "z">>,
      <<"p", "h", "o", "t", "o", " ", "o", "f", " ", "t", "h", "e", " ", "z">>,
      <<"a", " ", "z", "_", "0", "_", "0">>,
      <<"a", " ", "z", ",", "z">>,
      <<"z", ",", "a", " ", "z">>,
      <<"a", " ", "a", " ", "z", " ", "z">>,
      <<"a", "z", " ", "a", " ", "z">>,
      <<"a", "n", " ", " ", "z", ",", "a">> }

\* The characters of the enumerated raw prompts.
PromptAlphabet == {"a", "z", " ", ","}

\* Every raw prompt of at most MaxPromptLen characters over PromptAlphabet.
EnumeratedPrompts ==
    UNION { [1..n -> PromptAlphabet] : n \in 0..MaxPromptLen }

\* The prompts the wrapper's callers pass between other calls.
CallerPrompts == {NonePrompt, <<>>, E2EPrompt}

\* The prompts the composer is applied to on its own.
ComposerPrompts == {NonePrompt} \cup NamedPrompts \cup EnumeratedPrompts

\* ------------------------------------------------------ pipeline construction

\* pipeline_name=None, and the names initialize_pipeline has a branch for.
NoneName == "<None>"
DeclaredPipelineNames == {"img2img", "text2img", "text2img3", "flux", NoneName}

\* A pipeline name initialize_pipeline has no branch for.
UnknownPipelineName == "text2video"
PipelineNames == DeclaredPipelineNames \cup {UnknownPipelineName}

\* base_model_path=None, and a path the caller gives.
NoPath == "<None>"
GivenPath == "models/sd15-dste8-vae.safetensors"
BaseModelPaths == {NoPath, GivenPath}

\* base_model_path_dict
BaseModelPathDict ==
    [n \in {"text2img", "text2img3", "flux"} |->
        IF n = "text2img" THEN "runwayml/stable-diffusion-v1-5"
        ELSE IF n = "text2img3" THEN "stabilityai/stable-diffusion-3-medium-diffusers"
        ELSE "black-forest-labs/FLUX.1-schnell"]

\* A scale is the fraction <<numerator, denominator>>.  -1 asks for "the
\* default scale for the adaface encoder type".
UseDefaultScale == <<-1, 1>>
\* A scale the caller chooses: 2.5.
ExplicitScale == <<5, 2>>

\* adaface_encoder_scales=None, or a list of one scale for each encoder.
NoScales == [none |-> TRUE, list |-> <<>>]
ScaleArgs(n) ==
    {NoScales}
      \cup { [none |-> FALSE, list |-> l] :
               l \in { [i \in 1..n |-> UseDefaultScale],
                       [i \in 1..n |-> IF i = 1 THEN ExplicitScale ELSE UseDefaultScale],
                       [i \in 1..n |-> IF i = 1 THEN UseDefaultScale ELSE ExplicitScale] } }

\* Mutant of EncoderScales: absent scales become 1 for every encoder.
EncoderScalesOfOne(arg, n) ==
    IF arg.none THEN [i \in 1..n |-> <<1, 1>>] ELSE arg.list

\* self.adaface_encoder_scales as __init__ stores it: [-1] * len(types) when
\* none are given, and what is given otherwise ("Do not normalize the weights,
\* and just use them as is").
EncoderScales(arg, n) ==
    IF arg.none THEN [i \in 1..n |-> UseDefaultScale] ELSE arg.list

\* The default scale of an encoder type: "6 for arc2face and 1 for
\* consistentID"; no default is documented for another type.
DefaultScale(type) ==
    IF type = "arc2face" THEN <<6, 1>>
    ELSE IF type = "consistentID" THEN <<1, 1>>
    ELSE UseDefaultScale

\* create_id2ada_prompt_encoder(type, ckpt, out_id_embs_cfg_scale=scale): the
\* encoder holds its type and the scale it applies, the default of its type
\* when it is given -1.
CreateId2AdaPromptEncoder(type, scale) ==
    [type |-> type,
     out_id_embs_cfg_scale |-> IF scale = UseDefaultScale THEN DefaultScale(type) ELSE scale]

\* Mutant of CreateEncoders: every encoder is created with the first scale.
CreateEncodersFirstScale(types, scales) ==
    [i \in 1..Len(types) |-> CreateId2AdaPromptEncoder(types[i], scales[1])]

\* The loop of initialize_pipeline over the encoder types: encoder i is
\* created with adaface_encoder_scales[i].
CreateEncoders(types, scales) ==
    [i \in 1..Len(types) |-> CreateId2AdaPromptEncoder(types[i], scales[i])]

\* PipelineClass of initialize_pipeline.
PipelineClass(name) ==
    IF name = "img2img" THEN "StableDiffusionImg2ImgPipeline"
    ELSE IF name = "text2img" THEN "StableDiffusionPipeline"
    ELSE IF name = "text2img3" THEN "StableDiffusion3Pipeline"
    ELSE IF name = "flux" THEN "FluxPipeline"
    ELSE "StableDiffusionPipeline"

\* No pipeline: self.pipeline is not assigned yet.
NoPipeline == [cls |-> "none", base |-> "", unet |-> FALSE, scheduler |-> "none"]

\* The pipeline initialize_pipeline assigns: loaded from base, the unet removed
\* when pipeline_name is None, the DDIM scheduler unless text2img3 or flux.
LoadedPipeline(name, base) ==
    [cls |-> PipelineClass(name),
     base |-> base,
     unet |-> name # NoneName,
     scheduler |-> IF name \in {"text2img3", "flux"}
                   THEN "FlowMatchEulerDiscreteScheduler" ELSE "DDIMScheduler"]

\* The models initialize_pipeline has loaded when it reaches the branch on
\* pipeline_name: the identity encoders, the 840k-step VAE and the DreamShaper
\* text encoder when asked for.
LoadedBeforeBranch(types, use_840k_vae, use_ds_text_encoder) ==
    [i \in 1..Len(types) |-> "id2ada_prompt_encoder"]
      \o (IF use_840k_vae THEN <<"vae">> ELSE <<>>)
      \o (IF use_ds_text_encoder THEN <<"text_encoder">> ELSE <<>>)

\* Mutant of UnknownName: every name is accepted.
UnknownNameNever(name) == FALSE

\* The else branch of the chain on pipeline_name.
UnknownName(name) == name \notin DeclaredPipelineNames

\* base_model_path_dict[self.pipeline_name] raises KeyError.
NoDefaultPath(name, path) == path = NoPath /\ name \notin DOMAIN BaseModelPathDict

\* initialize_pipeline(), called by __init__ at line 71.  use_840k_vae and
\* use_ds_text_encoder are the constructor's flags.  call.ret is the models
\* loaded, in the order they were loaded.
InitializePipeline(use_840k_vae, use_ds_text_encoder) ==
    /\ phase = "new"
    /\ id2ada_prompt_encoders' = CreateEncoders(adaface_encoder_types, adaface_encoder_scales)
    /\ LET loaded == LoadedBeforeBranch(adaface_encoder_types, use_840k_vae, use_ds_text_encoder)
           base == IF base_model_path = NoPath THEN BaseModelPathDict[pipeline_name]
                   ELSE base_model_path
           arg == <<use_840k_vae, use_ds_text_encoder>>
       IN  IF UnknownName(pipeline_name) THEN
               /\ call' = Call("initialize_pipeline", "ValueError", arg, loaded)
               /\ phase' = "failed"
               /\ UNCHANGED << base_model_path, pipeline >>
           ELSE IF NoDefaultPath(pipeline_name, base_model_path) THEN
               /\ call' = Call("initialize_pipeline", "KeyError", arg, loaded)
               /\ phase' = "failed"
               /\ UNCHANGED << base_model_path, pipeline >>
           ELSE
               /\ base_model_path' = base
               /\ pipeline' = LoadedPipeline(pipeline_name, base)
               /\ call' = Call("initialize_pipeline", "none", arg, Append(loaded, "pipeline"))
               /\ phase' = "constructing"
    /\ UNCHANGED << config_vars, tokenizer, token_embeds, token_vars,
                    all_teacher_neg_id_prompt_embs, attrs, pipeline_name,
                    adaface_encoder_scales, apply_neg_img_prompt >>

\* wrapper.apply_neg_img_prompt = value, assigned by the caller: the wrapper
\* has no method for it.
SetApplyNegImgPrompt(value) ==
    /\ phase = "ready"
    /\ apply_neg_img_prompt' = value
    /\ call' = Call("set_apply_neg_img_prompt", "none", <<value>>, <<>>)
    /\ UNCHANGED << config_vars, tokenizer, token_embeds, token_vars,
                    all_teacher_neg_id_prompt_embs, attrs, pipeline_name, base_model_path,
                    adaface_encoder_scales, id2ada_prompt_encoders, pipeline, phase >>

\* ------------------------------------------------------- load_unet_from_file

\* The most tensors a checkpoint file holds.
MaxKeys == 3

\* Whether s starts with lit, and whether it ends with it.
StartsWith(s, lit) == Len(s) >= Len(lit) /\ SubSeq(s, 1, Len(lit)) = lit
EndsWith(s, lit) == Len(s) >= Len(lit) /\ SubSeq(s, Len(s) - Len(lit) + 1, Len(s)) = lit

\* "model.", "diffusion_model" and "model.diffusion_model"
ModelDot == <<"m", "o", "d", "e", "l", ".">>
DiffusionModel ==
    <<"d", "i", "f", "f", "u", "s", "i", "o", "n", "_", "m", "o", "d", "e", "l">>
ModelDiffusionModel == ModelDot \o DiffusionModel

\* The keys a checkpoint may hold: of a full LDM checkpoint, of an LDM UNet
\* saved on its own, of a diffusers UNet, and keys that have a part of a
\* prefix only.
StateDictKeys ==
    { ModelDiffusionModel \o <<".", "w">>,
      ModelDiffusionModel \o <<"2">>,
      DiffusionModel \o <<".", "w">>,
      <<"c", "o", "n", "v", "_", "i", "n", ".", "w">>,
      ModelDot \o <<"w">>,
      <<"x", ".">> \o DiffusionModel }

RECURSIVE KeyLists(_)
\* The key lists of the state dicts with n keys: the keys of a dict differ.
KeyLists(n) ==
    IF n = 0 THEN {<<>>}
    ELSE UNION { { Append(l, k) : k \in StateDictKeys \ Range(l) } : l \in KeyLists(n - 1) }

\* The state dicts a file may hold, as the list of their keys in file order.
StateDicts == UNION { KeyLists(n) : n \in 0..MaxKeys }

\* The paths a caller passes: a .safetensors file and a pickled checkpoint.
SafetensorsSuffix == <<".", "s", "a", "f", "e", "t", "e", "n", "s", "o", "r", "s">>
UnetPaths == { <<"u">> \o SafetensorsSuffix, <<"u", ".", "p", "t">> }

\* safetensors_load_file for a path that ends with ".safetensors", else torch.load
Loader(unet_path) ==
    IF EndsWith(unet_path, SafetensorsSuffix) THEN "safetensors_load_file" ELSE "torch.load"

\* is_ldm_unet, from key0
IsLdmUnet(key0) == StartsWith(key0, ModelDiffusionModel) \/ StartsWith(key0, DiffusionModel)

\* key_prefix, from key0
KeyPrefix(key0) ==
    IF StartsWith(key0, ModelDiffusionModel) THEN <<>> ELSE ModelDot

\* Mutant of ConvertedKeys: the prefix is decided for every key from that key.
ConvertedKeysPerKey(state_dict) ==
    [k \in 1..Len(state_dict) |->
        IF IsLdmUnet(state_dict[k]) THEN KeyPrefix(state_dict[k]) \o state_dict[k]
        ELSE state_dict[k]]

\* The keys of unet_state_dict2: key2 = key_prefix + key for every key.
ConvertedKeys(state_dict) ==
    [k \in 1..Len(state_dict) |-> KeyPrefix(state_dict[1]) \o state_dict[k]]

\* load_unet_from_file(unet_path, device): is_file is os.path.isfile(unet_path),
\* state_dict the keys the file holds.  call.ret is the loader that read the
\* file, whether convert_ldm_unet_checkpoint was called, and the keys of the
\* dict handed to it (of the dict returned, when it was not called).
LoadUnetFromFile(unet_path, is_file, state_dict) ==
    /\ phase = "ready"
    /\ call' =
         IF ~is_file THEN
             Call("load_unet_from_file", "ValueError", <<unet_path, is_file, <<>>>>, <<>>)
         ELSE IF state_dict = <<>> THEN
             Call("load_unet_from_file", "IndexError", <<unet_path, is_file, state_dict>>, <<>>)
         ELSE IF IsLdmUnet(state_dict[1]) THEN
             Call("load_unet_from_file", "none", <<unet_path, is_file, state_dict>>,
                  [loader |-> Loader(unet_path), converted |-> TRUE,
                   keys |-> ConvertedKeys(state_dict)])
         ELSE
             Call("load_unet_from_file", "none", <<unet_path, is_file, state_dict>>,
                  [loader |-> Loader(unet_path), converted |-> FALSE, keys |-> state_dict])
    /\ UNCHANGED << config_vars, pipeline_vars, tokenizer, token_embeds, token_vars,
                    all_teacher_neg_id_prompt_embs, attrs, phase >>

\* ---------------------------------------------------- encode_prompt, forward

\* The sequence length of the embeddings the pipeline's text encoders return
\* (77 for CLIP, 333 and 512 with T5), scaled down.
SeqLen == 3

\* Row k of the prompt embedding and of the negative-prompt embedding the
\* pipeline returns, and the one row of each pooled embedding.
PromptRow(k) == [kind |-> "prompt", batch |-> "", enc |-> 0, idx |-> k]
NegPromptRow(k) == [kind |-> "neg_prompt", batch |-> "", enc |-> 0, idx |-> k]
PooledRow == [kind |-> "pooled", batch |-> "", enc |-> 0, idx |-> 0]
NegPooledRow == [kind |-> "neg_pooled", batch |-> "", enc |-> 0, idx |-> 0]
\* Row k of a teacher_neg_id_prompt_embs the caller passes to forward.
TeacherRow(k) == [kind |-> "teacher", batch |-> "", enc |-> 0, idx |-> k]

\* The width of the rows of the text encoder ("negative_prompt_embeds_:
\* [1, 77, 768]").
HiddenDim == 768

\* Row k of a teacher_neg_id_prompt_embs whose rows have w columns.
TeacherRowOfWidth(k, w) ==
    [kind |-> "teacher", batch |-> "", enc |-> 0, idx |-> k, width |-> w]

\* The number of columns of a row: HiddenDim unless the row names another.
RowWidth(row) == IF "width" \in DOMAIN row THEN row.width ELSE HiddenDim

\* A row as an assignment to a slice of HiddenDim columns stores it: a row of
\* one column is expanded, its value in every column.
Expanded(row) ==
    IF RowWidth(row) = 1
    THEN [kind |-> "expanded", batch |-> row.batch, enc |-> row.enc, idx |-> row.idx]
    ELSE row

\* A tensor is the sequence of its batch elements, each the sequence of its
\* rows; None is the empty sequence.
NoTensor == <<>>
PromptEmbeds == << [k \in 1..SeqLen |-> PromptRow(k - 1)] >>
NegativePromptEmbeds == << [k \in 1..SeqLen |-> NegPromptRow(k - 1)] >>
PooledPromptEmbeds == << <<PooledRow>> >>
NegativePooledPromptEmbeds == << <<NegPooledRow>> >>

\* tensor.repeat(n, 1, 1) and tensor.repeat(n, 1)
Repeat(t, n) == [b \in 1..(Len(t) * n) |-> t[((b - 1) % Len(t)) + 1]]

\* self.negative_prompt when the constructor is given none, and a negative
\* prompt a caller passes.
DefaultNegativePrompt == <<"flaws in the eyes, flaws in the face, lowres, ...">>
CallerNegativePrompt == <<"b", "l", "u", "r", "r", "y">>
NegativePromptArgs == {NonePrompt, CallerNegativePrompt}

\* if negative_prompt is None: negative_prompt = self.negative_prompt
OrDefaultNegative(negative_prompt) ==
    IF negative_prompt = NonePrompt THEN DefaultNegativePrompt ELSE negative_prompt

\* The number of ", " appended for the T5 text encoder.
T5FillerCount == 256

\* "".join([", "] * 256)
T5Filler == [k \in 1..(2 * T5FillerCount) |-> IF k % 2 = 1 THEN "," ELSE " "]

\* Mutant of PromptT5: the filler is put in front of the prompt.
PromptT5FillerFirst(prompt) == T5Filler \o prompt

\* prompt_t5 = prompt + "".join([", "] * 256)
PromptT5(prompt) == prompt \o T5Filler

\* hasattr(self.pipeline, "encode_prompt"): older versions of diffusers have
\* _encode_prompt alone on the Stable Diffusion pipelines.
HasEncodePromptChoices(name) ==
    IF name \in {"text2img3", "flux"} THEN {TRUE} ELSE BOOLEAN

\* The call encode_prompt makes to the pipeline: the entry point, the prompts
\* it passes in their order, the negative prompt (None when none is passed).
PipelineEncodeCall(name, has_encode_prompt, prompt, negative_prompt) ==
    IF ~has_encode_prompt THEN
        [fn |-> "_encode_prompt", prompts |-> <<prompt>>, negative_prompt |-> negative_prompt]
    ELSE IF name \in {"text2img3", "flux"} THEN
        IF name = "text2img3" THEN
            [fn |-> "encode_prompt", prompts |-> <<prompt, prompt, PromptT5(prompt)>>,
             negative_prompt |-> negative_prompt]
        ELSE IF name = "flux" THEN
            [fn |-> "encode_prompt", prompts |-> <<prompt, PromptT5(prompt)>>,
             negative_prompt |-> NonePrompt]
        ELSE [fn |-> "breakpoint", prompts |-> <<>>, negative_prompt |-> NonePrompt]
    ELSE
        [fn |-> "encode_prompt", prompts |-> <<prompt>>, negative_prompt |-> negative_prompt]

\* prompt_embeds_, negative_prompt_embeds_, pooled_prompt_embeds_ and
\* negative_pooled_prompt_embeds_ as the pipeline returns them.
PipelineEmbeds(name, has_encode_prompt) ==
    IF has_encode_prompt /\ name = "text2img3" THEN
        << PromptEmbeds, NegativePromptEmbeds, PooledPromptEmbeds, NegativePooledPromptEmbeds >>
    ELSE IF has_encode_prompt /\ name = "flux" THEN
        << PromptEmbeds, NoTensor, PooledPromptEmbeds, NoTensor >>
    ELSE << PromptEmbeds, NegativePromptEmbeds, NoTensor, NoTensor >>

\* Mutant of SetTail: the rows are written at the front.
SetHead(t, rows) ==
    [b \in 1..Len(t) |->
        [k \in 1..Len(t[b]) |-> IF k <= Len(rows) THEN Expanded(rows[k]) ELSE t[b][k]]]

\* t[:, -K:] = rows, K the number of rows, for 1 <= K <= the sequence length
\* of t: the last K positions of every batch element become the rows, expanded
\* to the width of t.
SetTail(t, rows) ==
    [b \in 1..Len(t) |->
        [k \in 1..Len(t[b]) |->
            IF k > Len(t[b]) - Len(rows)
            THEN Expanded(rows[k - (Len(t[b]) - Len(rows))])
            ELSE t[b][k]]]

\* The assignment t[:, -K:] = rows raises: the slice is all of t when K is 0 or
\* above the sequence length, and the rows do not have its shape; or the rows
\* have neither the width of t nor one column.
TailMisfit(t, rows) ==
    \/ Len(rows) < 1
    \/ \E b \in 1..Len(t) : Len(rows) > Len(t[b])
    \/ \E k \in 1..Len(rows) : RowWidth(rows[k]) \notin {HiddenDim, 1}

\* Mutant of BlendsNegImgPrompt: the switch is not read.
BlendsOnText2Img(name, apply) == name = "text2img"

\* Mutant of BlendsNegImgPrompt: the negative batch is blended on every wrapper.
BlendsAlways(name, apply) == TRUE

\* self.pipeline_name == "text2img" and self.apply_neg_img_prompt
BlendsNegImgPrompt(name, apply) == name = "text2img" /\ apply

\* encode_prompt from line 323 on, composed being what update_prompt returned
\* at line 317: the exception it raises, the four tensors it returns, the
\* calls it made to the pipeline.
EncodeComposed(sent, embeds) ==
    IF sent.fn = "breakpoint" THEN
        [exc |-> "breakpoint", ret |-> <<>>, sent |-> <<>>]
    ELSE IF BlendsNegImgPrompt(pipeline_name, apply_neg_img_prompt) THEN
        IF "all_teacher_neg_id_prompt_embs" \notin attrs THEN
            [exc |-> "AttributeError", ret |-> <<>>, sent |-> <<sent>>]
        ELSE IF TailMisfit(embeds[2], all_teacher_neg_id_prompt_embs) THEN
            [exc |-> "RuntimeError", ret |-> <<>>, sent |-> <<sent>>]
        ELSE
            [exc |-> "none",
             ret |-> [embeds EXCEPT ![2] = SetTail(embeds[2], all_teacher_neg_id_prompt_embs)],
             sent |-> <<sent>>]
    ELSE [exc |-> "none", ret |-> embeds, sent |-> <<sent>>]

\* encode_prompt(prompt, negative_prompt): the prompt is composed, the
\* pipeline encodes it, the negative batch is blended in.
EncodePromptResult(prompt, negative_prompt, has_encode_prompt) ==
    EncodeComposed(
        PipelineEncodeCall(pipeline_name, has_encode_prompt,
                           UpdatedPrompt(prompt, subject_string, adaface_encoder_types,
                                         placeholder_tokens_strs),
                           OrDefaultNegative(negative_prompt)),
        PipelineEmbeds(pipeline_name, has_encode_prompt))

\* The record of a call of encode_prompt whose outcome is r.
EncodePromptCall(arg, r) == CallSent("encode_prompt", r.exc, arg, r.ret, r.sent)

\* Mutant of EncodePrompt: the stored negative batch is dropped once it has
\* been read.
EncodePromptConsumesBatch(prompt, negative_prompt, has_encode_prompt) ==
    /\ phase = "ready"
    /\ call' = EncodePromptCall(<<prompt, negative_prompt>>,
                                EncodePromptResult(prompt, negative_prompt, has_encode_prompt))
    /\ all_teacher_neg_id_prompt_embs' = <<>>
    /\ UNCHANGED << config_vars, pipeline_vars, tokenizer, token_embeds, token_vars,
                    attrs, phase >>

\* encode_prompt(prompt, negative_prompt), called on a constructed wrapper.
EncodePrompt(prompt, negative_prompt, has_encode_prompt) ==
    /\ phase = "ready"
    /\ call' = EncodePromptCall(<<prompt, negative_prompt>>,
                                EncodePromptResult(prompt, negative_prompt, has_encode_prompt))
    /\ UNCHANGED << config_vars, pipeline_vars, tokenizer, token_embeds, token_vars,
                    all_teacher_neg_id_prompt_embs, attrs, phase >>

\* self.num_inference_steps (num_inference_steps=50), and the step count
\* forward passes to the flux pipeline.
NumInferenceSteps == 50
FluxNumInferenceSteps == 4

\* guidance_scale=4.0
GuidanceScale == "4.0"

\* The tensors a caller passes as teacher_neg_id_prompt_embs: None, two rows,
\* one row more than the sequence length, no row, two rows of one column, two
\* rows of one column too many.
TeacherNegArgs ==
    { NoTensor,
      << <<TeacherRow(0), TeacherRow(1)>> >>,
      << [k \in 1..(SeqLen + 1) |-> TeacherRow(k - 1)] >>,
      << <<>> >>,
      << <<TeacherRowOfWidth(0, 1), TeacherRowOfWidth(1, 1)>> >>,
      << <<TeacherRowOfWidth(0, HiddenDim + 1), TeacherRowOfWidth(1, HiddenDim + 1)>> >> }

\* The values of out_image_count and of ref_img_strength a caller passes.
OutImageCounts == {1, 2}
RefImgStrengths == {"0.8", "0.3"}

\* The keyword arguments of a call of self.pipeline; a keyword that is not
\* passed is absent from passed and holds None.
SamplerCall(passed, image, prompt_embeds, negative_prompt_embeds, pooled_prompt_embeds, negative_pooled_prompt_embeds, num_inference_steps, strength) ==
    [fn |-> "__call__",
     passed |-> passed \cup {"prompt_embeds", "num_inference_steps", "guidance_scale",
                             "num_images_per_prompt", "generator"},
     image |-> image,
     prompt_embeds |-> prompt_embeds,
     negative_prompt_embeds |-> negative_prompt_embeds,
     pooled_prompt_embeds |-> pooled_prompt_embeds,
     negative_pooled_prompt_embeds |-> negative_pooled_prompt_embeds,
     num_inference_steps |-> num_inference_steps,
     guidance_scale |-> GuidanceScale,
     num_images_per_prompt |-> 1,
     strength |-> strength]

\* The three calls of self.pipeline in forward, by pipeline name.
ForwardSamplerCall(name, prompt_embeds, negative_prompt_embeds, pooled_prompt_embeds, negative_pooled_prompt_embeds, out_image_count, ref_img_strength) ==
    IF name = "text2img3" THEN
        SamplerCall({"negative_prompt_embeds", "pooled_prompt_embeds",
                     "negative_pooled_prompt_embeds"},
                    "", prompt_embeds, negative_prompt_embeds,
                    Repeat(pooled_prompt_embeds, out_image_count),
                    Repeat(negative_pooled_prompt_embeds, out_image_count),
                    NumInferenceSteps, "")
    ELSE IF name = "flux" THEN
        SamplerCall({"pooled_prompt_embeds"},
                    "", prompt_embeds, NoTensor, pooled_prompt_embeds, NoTensor,
                    FluxNumInferenceSteps, "")
    ELSE
        SamplerCall({"image", "negative_prompt_embeds", "strength"},
                    "noise", prompt_embeds, negative_prompt_embeds, NoTensor, NoTensor,
                    NumInferenceSteps, ref_img_strength)

\* Mutant of ReadsStrength: every pipeline class reads image and strength.
ReadsStrengthAlways(cls) == TRUE

\* "ref_img_strength is used only in the img2img pipeline", "When the pipeline
\* is text2img, strength is ignored": the image-to-image class reads the
\* keywords image and strength, the other classes do not.
ReadsStrength(cls) == cls = "StableDiffusionImg2ImgPipeline"

\* The keyword arguments of a call of self.pipeline that its class reads.
SamplingArgs(cls, sampler) ==
    IF ReadsStrength(cls) THEN sampler
    ELSE [sampler EXCEPT !.passed = @ \ {"image", "strength"}, !.image = "", !.strength = ""]

\* forward from line 383 on, r being the outcome of encode_prompt at lines
\* 380-382: the record of the call.  call.ret is the number of images returned.
ForwardCall(arg, r, teacher_neg_id_prompt_embs, out_image_count, ref_img_strength) ==
    IF r.exc # "none" THEN
        CallSent("forward", r.exc, arg, <<>>, r.sent)
    ELSE IF /\ r.ret[2] # NoTensor
            /\ teacher_neg_id_prompt_embs # NoTensor
            /\ TailMisfit(r.ret[2], teacher_neg_id_prompt_embs[1]) THEN
        CallSent("forward", "RuntimeError", arg, <<>>, r.sent)
    ELSE
        LET prompt_embeds == Repeat(r.ret[1], out_image_count)
            negative_prompt_embeds ==
                IF r.ret[2] = NoTensor THEN NoTensor
                ELSE Repeat(IF teacher_neg_id_prompt_embs = NoTensor THEN r.ret[2]
                            ELSE SetTail(r.ret[2], teacher_neg_id_prompt_embs[1]),
                            out_image_count)
            sampler == ForwardSamplerCall(pipeline_name, prompt_embeds,
                                          negative_prompt_embeds, r.ret[3], r.ret[4],
                                          out_image_count, ref_img_strength)
        IN  IF ~pipeline.unet THEN
                CallSent("forward", "PipelineError", arg, <<>>, Append(r.sent, sampler))
            ELSE
                CallSent("forward", "none", arg, out_image_count * Len(r.ret[1]),
                         Append(r.sent, sampler))

\* forward(noise, prompt, negative_prompt, teacher_neg_id_prompt_embs,
\* out_image_count=out_image_count, ref_img_strength=ref_img_strength), called
\* on a constructed wrapper.
Forward(prompt, negative_prompt, teacher_neg_id_prompt_embs, out_image_count, ref_img_strength, has_encode_prompt) ==
    /\ phase = "ready"
    /\ call' = ForwardCall(<< prompt, negative_prompt, teacher_neg_id_prompt_embs,
                              out_image_count, ref_img_strength >>,
                           EncodePromptResult(prompt, OrDefaultNegative(negative_prompt),
                                              has_encode_prompt),
                           teacher_neg_id_prompt_embs, out_image_count, ref_img_strength)
    /\ UNCHANGED << config_vars, pipeline_vars, tokenizer, token_embeds, token_vars,
                    all_teacher_neg_id_prompt_embs, attrs, phase >>

\* ---------------------------------------------------------------- behaviour

\* Placeholder tokens the base tokenizer may already hold: none, the first or
\* the last of those the wrapper will ask for.
PreExisting(all) ==
    {<<>>} \cup (IF all = <<>> THEN {} ELSE {<<all[1]>>, <<all[Len(all)]>>})

\* The wrapper in __init__, before line 73 calls extend_tokenizer_and_text_encoder:
\* initialize_pipeline has loaded a text2img pipeline from a given base model.
Init ==
    \E encs \in EncoderLists, s \in SubjectStrings, pad \in 0..MaxPad :
        LET nums == [k \in 1..Len(encs) |-> encs[k].n]
        IN  \E pre \in PreExisting(AllPlaceholderTokens(s, nums)) :
                /\ adaface_encoder_types = [k \in 1..Len(encs) |-> encs[k].type]
                /\ encoders_num_id_vecs = nums
                /\ subject_string = s
                /\ tokenizer = BaseVocab \o pre
                /\ token_embeds = [r \in 1..(Len(BaseVocab \o pre) + pad) |-> OrigRow(r - 1)]
                /\ all_placeholder_tokens = <<>>
                /\ placeholder_tokens_strs = <<>>
                /\ all_placeholder_tokens_str = <<>>
                /\ placeholder_token_ids = <<>>
                /\ old_weight_shape = 0
                /\ all_teacher_neg_id_prompt_embs = <<>>
                /\ attrs = {}
                /\ pipeline_name = "text2img"
                /\ base_model_path = GivenPath
                /\ adaface_encoder_scales = EncoderScales(NoScales, Len(encs))
                /\ id2ada_prompt_encoders
                     = CreateEncoders([k \in 1..Len(encs) |-> encs[k].type],
                                      EncoderScales(NoScales, Len(encs)))
                /\ pipeline = LoadedPipeline("text2img", GivenPath)
                /\ apply_neg_img_prompt = FALSE
                /\ phase = "constructing"
                /\ call = Call("none", "none", <<>>, <<>>)

Next ==
    \/ Extend
    \/ \E subj_embs \in SubjEmbsArgs(Len(placeholder_token_ids)) : Inject(subj_embs)
    \/ \E b \in SubjectSets, fails \in BOOLEAN, update_text_encoder \in BOOLEAN,
          has_neg \in HasNegChoices(adaface_encoder_types) :
            PrepareAdafaceEmbeddings(b, has_neg, fails, update_text_encoder)
    \/ \E prompt \in CallerPrompts : UpdatePrompt(prompt)

Spec == Init /\ [][Next]_vars

\* The composer on its own: a wrapper constructed on a tokenizer that holds none
\* of its tokens, then update_prompt on every enumerated prompt.
InitCompose ==
    /\ Init
    /\ Len(tokenizer) = Len(BaseVocab)
    /\ Len(token_embeds) = Len(tokenizer)

\* update_prompt changes nothing but the record of the call, so one call of it
\* after the construction is every call of it.
NextCompose ==
    \/ phase = "constructing" /\ Extend
    \/ \E prompt \in ComposerPrompts : call.op = "extend" /\ UpdatePrompt(prompt)

SpecCompose == InitCompose /\ [][NextCompose]_vars

\* The encoder lists of the wrappers whose pipeline is constructed and run:
\* one or two encoders of the two known types, 1 to 2 * MaxIdVecs id vectors.
BackendEncoderLists ==
    { << [type |-> "arc2face", n |-> 1] >>,
      << [type |-> "consistentID", n |-> 2] >>,
      << [type |-> "arc2face", n |-> 2], [type |-> "consistentID", n |-> 1] >>,
      << [type |-> "arc2face", n |-> MaxIdVecs], [type |-> "consistentID", n |-> MaxIdVecs] >> }

\* The wrapper in __init__ at line 71, before initialize_pipeline is called:
\* the constructor's arguments are stored, apply_neg_img_prompt is False, and
\* the base model's tokenizer holds none of the wrapper's tokens.
InitNew(encs, name, path, scale_arg) ==
    /\ adaface_encoder_types = [k \in 1..Len(encs) |-> encs[k].type]
    /\ encoders_num_id_vecs = [k \in 1..Len(encs) |-> encs[k].n]
    /\ subject_string = DefaultSubjectString
    /\ tokenizer = BaseVocab
    /\ token_embeds = [r \in 1..Len(BaseVocab) |-> OrigRow(r - 1)]
    /\ all_placeholder_tokens = <<>>
    /\ placeholder_tokens_strs = <<>>
    /\ all_placeholder_tokens_str = <<>>
    /\ placeholder_token_ids = <<>>
    /\ old_weight_shape = 0
    /\ all_teacher_neg_id_prompt_embs = <<>>
    /\ attrs = {}
    /\ pipeline_name = name
    /\ base_model_path = path
    /\ adaface_encoder_scales = EncoderScales(scale_arg, Len(encs))
    /\ id2ada_prompt_encoders = <<>>
    /\ pipeline = NoPipeline
    /\ apply_neg_img_prompt = FALSE
    /\ phase = "new"
    /\ call = Call("none", "none", <<>>, <<>>)

\* The constructor on its own, for every pipeline name, with and without a
\* base model path and scales.
InitConstruct ==
    \E encs \in BackendEncoderLists, name \in PipelineNames, path \in BaseModelPaths :
        \E scale_arg \in ScaleArgs(Len(encs)) : InitNew(encs, name, path, scale_arg)

NextConstruct ==
    \/ \E use_840k_vae \in BOOLEAN, use_ds_text_encoder \in BOOLEAN :
          InitializePipeline(use_840k_vae, use_ds_text_encoder)
    \/ phase = "constructing" /\ Extend

SpecConstruct == InitConstruct /\ [][NextConstruct]_vars

\* The prompts encode_prompt and forward are called with.
GeneratePrompts == {NonePrompt, E2EPrompt}

\* A wrapper constructed for every pipeline name, with a base model path and
\* no scales, and then used: embeddings are prepared, prompts are composed and
\* encoded, images are generated, apply_neg_img_prompt is assigned.
InitGenerate ==
    \E encs \in BackendEncoderLists, name \in PipelineNames :
        InitNew(encs, name, GivenPath, NoScales)

\* encode_prompt and forward leave every variable but call unchanged, so what
\* can follow one of them can follow the call before it: they are taken after
\* any other call.
NextGenerate ==
    \/ \E use_840k_vae \in BOOLEAN, use_ds_text_encoder \in BOOLEAN :
          InitializePipeline(use_840k_vae, use_ds_text_encoder)
    \/ phase = "constructing" /\ Extend
    \/ \E b \in SubjectSets, fails \in BOOLEAN, update_text_encoder \in BOOLEAN,
          has_neg \in HasNegChoices(adaface_encoder_types) :
            PrepareAdafaceEmbeddings(b, has_neg, fails, update_text_encoder)
    \/ \E value \in BOOLEAN : SetApplyNegImgPrompt(value)
    \/ \E prompt \in GeneratePrompts : UpdatePrompt(prompt)
    \/ \E prompt \in GeneratePrompts, negative_prompt \in NegativePromptArgs,
          has_encode_prompt \in HasEncodePromptChoices(pipeline_name) :
            /\ call.op \notin {"encode_prompt", "forward"}
            /\ EncodePrompt(prompt, negative_prompt, has_encode_prompt)
    \/ \E prompt \in {E2EPrompt}, negative_prompt \in NegativePromptArgs,
          teacher_neg_id_prompt_embs \in TeacherNegArgs,
          out_image_count \in OutImageCounts, ref_img_strength \in RefImgStrengths,
          has_encode_prompt \in HasEncodePromptChoices(pipeline_name) :
            /\ call.op \notin {"encode_prompt", "forward"}
            /\ Forward(prompt, negative_prompt, teacher_neg_id_prompt_embs, out_image_count,
                       ref_img_strength, has_encode_prompt)

SpecGenerate == InitGenerate /\ [][NextGenerate]_vars

\* load_unet_from_file on its own: a text2img wrapper is constructed, then the
\* method is called on every path and every state dict.
InitUnet ==
    \E encs \in BackendEncoderLists : InitNew(encs, "text2img", GivenPath, NoScales)

NextUnet ==
    \/ \E use_840k_vae \in BOOLEAN, use_ds_text_encoder \in BOOLEAN :
          InitializePipeline(use_840k_vae, use_ds_text_encoder)
    \/ phase = "constructing" /\ Extend
    \/ \E unet_path \in UnetPaths, is_file \in BOOLEAN, state_dict \in StateDicts :
          LoadUnetFromFile(unet_path, is_file, state_dict)

SpecUnet == InitUnet /\ [][NextUnet]_vars

\* ------------------------------------------------------------------- claims

\* The number of id vectors of the encoders before encoder i (1-based).
Offset(i) == SumSeq(SubSeq(encoders_num_id_vecs, 1, i - 1))

\* The placeholder tokens the wrapper's configuration asks for.
RequestedTokens ==
    UNION { { PlaceholderToken(subject_string, i - 1, j - 1) : j \in 1..encoders_num_id_vecs[i] } :
            i \in 1..Len(encoders_num_id_vecs) }

\* C1: after update_text_encoder_subj_embs(subj_embs) has returned, given as
\* many rows as there are placeholder token ids, the table row at
\* placeholder_token_ids[k] is subj_embs[k], for every k.
C1_InjectRoundTrip ==
    (call.op = "inject" /\ call.exc = "none"
        /\ Len(call.arg) = Len(placeholder_token_ids))
    => \A k \in 1..Len(placeholder_token_ids) :
          /\ placeholder_token_ids[k] + 1 \in 1..Len(token_embeds)
          /\ token_embeds[placeholder_token_ids[k] + 1] = call.arg[k]

\* An injection of two or more rows has returned, into a table that had more
\* rows than the tokenizer had tokens before the vocabulary was extended.
C1_Witness ==
    /\ call.op = "inject" /\ call.exc = "none"
    /\ Len(call.arg) = Len(placeholder_token_ids)
    /\ Len(placeholder_token_ids) >= 2
    /\ old_weight_shape > Len(tokenizer) - Len(placeholder_token_ids)

\* C2 (as claimed): an injection whose row count differs from the number of
\* placeholder token ids raises, and leaves the table as it was.
C2_MismatchFailsUnmodified ==
    [][ (call'.op = "inject" /\ Len(call'.arg) # Len(placeholder_token_ids))
        => (call'.exc # "none" /\ token_embeds' = token_embeds) ]_vars

\* C3: extend_tokenizer_and_text_encoder raises whenever the tokenizer already
\* holds one of the requested placeholder tokens; so every call of it on a
\* constructed wrapper raises.
C3_ExtendFailsOnExistingToken ==
    [][ /\ (call'.op = "extend" /\ RequestedTokens \cap Range(tokenizer) # {})
            => call'.exc # "none"
        /\ (call'.op = "extend" /\ phase = "ready") => call'.exc = "ValueError" ]_vars

\* The constructor's call raised at the count check: the token strings were
\* built and the ids never assigned, with a requested token in the tokenizer
\* from the start.
C3_Witness ==
    /\ phase = "failed" /\ call.op = "extend" /\ call.exc = "ValueError"
    /\ "all_placeholder_tokens_str" \in attrs
    /\ "placeholder_token_ids" \notin attrs
    /\ Cardinality(RequestedTokens) >= 2

\* C4: with id-vector counts that sum to less than 1,
\* extend_tokenizer_and_text_encoder raises ValueError and neither the
\* tokenizer nor the embedding table nor a token attribute has changed.
C4_TooFewFailsFirst ==
    [][ (call'.op = "extend" /\ SumSeq(encoders_num_id_vecs) < 1)
        => /\ call'.exc = "ValueError"
           /\ tokenizer' = tokenizer
           /\ token_embeds' = token_embeds
           /\ attrs' = attrs ]_vars

\* The constructor raised for two encoders that have no id vector.
C4_Witness ==
    /\ phase = "failed" /\ call.op = "extend" /\ call.exc = "ValueError"
    /\ Len(encoders_num_id_vecs) = 2
    /\ SumSeq(encoders_num_id_vecs) < 1

\* C5: on a constructed wrapper all_placeholder_tokens is the tokens
\* "{subject_string}_{i}_{j}" ordered by (i, j), j below num_id_vecs[i]; its
\* length is the sum of the counts and no token occurs twice.
C5_AllPlaceholderTokens ==
    phase = "ready"
    => /\ Len(all_placeholder_tokens) = SumSeq(encoders_num_id_vecs)
       /\ \A i \in 1..Len(encoders_num_id_vecs) :
            \A j \in 1..encoders_num_id_vecs[i] :
               /\ Offset(i) + j <= Len(all_placeholder_tokens)
               /\ all_placeholder_tokens[Offset(i) + j]
                    = PlaceholderToken(subject_string, i - 1, j - 1)
       /\ \A k, m \in 1..Len(all_placeholder_tokens) :
            k # m => all_placeholder_tokens[k] # all_placeholder_tokens[m]

\* The constructor has returned for two encoders of two or more id vectors each.
C5_Witness ==
    /\ phase = "ready" /\ call.op = "extend" /\ call.exc = "none"
    /\ Len(encoders_num_id_vecs) = 2
    /\ encoders_num_id_vecs[1] >= 2
    /\ encoders_num_id_vecs[2] >= 2

\* C6 (as claimed): on a constructed wrapper the table has old_size +
\* sum(num_id_vecs) rows, old_size being its row count before the call,
\* whatever table the tokenizer came with.
C6_RowsOldSizePlusTotal ==
    phase = "ready"
    => Len(token_embeds) = old_weight_shape + SumSeq(encoders_num_id_vecs)

\* C6 (amended): a successful extend leaves the table with as many rows as the
\* tokenizer has tokens, which is the tokenizer's length before the call plus
\* sum(num_id_vecs); that is old_size + sum(num_id_vecs) when the table had as
\* many rows as the tokenizer had tokens.
C6_RowsTokenizerLength ==
    [][ (phase = "constructing" /\ phase' = "ready")
        => /\ Len(token_embeds') = Len(tokenizer')
           /\ Len(token_embeds') = Len(tokenizer) + SumSeq(encoders_num_id_vecs)
           /\ Len(token_embeds) = Len(tokenizer)
                => Len(token_embeds') = Len(token_embeds) + SumSeq(encoders_num_id_vecs) ]_vars

\* The constructor has returned on a table that had more rows than the
\* tokenizer had tokens.
C6_Witness ==
    /\ phase = "ready" /\ call.op = "extend" /\ call.exc = "none"
    /\ old_weight_shape > Len(tokenizer) - SumSeq(encoders_num_id_vecs)

\* C7: on a constructed wrapper placeholder_token_ids[k] is the tokenizer's id
\* of all_placeholder_tokens[k], the ids differ from one another and are rows
\* of the table; and once prepare_adaface_embeddings has updated the text
\* encoder, the row of token "{subject_string}_{i}_{j}" holds row j of encoder
\* i's embeddings, which is row Offset(i) + j of the batch it returns.
C7_PatchOrdering ==
    phase = "ready"
    => /\ Len(placeholder_token_ids) = Len(all_placeholder_tokens)
       /\ \A k \in 1..Len(placeholder_token_ids) :
            /\ placeholder_token_ids[k] + 1 \in 1..Len(tokenizer)
            /\ tokenizer[placeholder_token_ids[k] + 1] = all_placeholder_tokens[k]
            /\ placeholder_token_ids[k] + 1 \in 1..Len(token_embeds)
       /\ \A k, m \in 1..Len(placeholder_token_ids) :
            k # m => placeholder_token_ids[k] # placeholder_token_ids[m]
       /\ (call.op = "prepare" /\ call.exc = "none" /\ call.arg[2])
          => \A i \in 1..Len(encoders_num_id_vecs) :
               \A j \in 1..encoders_num_id_vecs[i] :
                  LET id1 == IndexOf(tokenizer, PlaceholderToken(subject_string, i - 1, j - 1))
                  IN  /\ id1 \in 1..Len(token_embeds)
                      /\ token_embeds[id1] = SubjRow(call.arg[1], i - 1, j - 1)
                      /\ Offset(i) + j <= Len(call.ret[1])
                      /\ call.ret[1][Offset(i) + j] = token_embeds[id1]

\* prepare_adaface_embeddings has updated the text encoder for two encoders,
\* the first of two or more id vectors.
C7_Witness ==
    /\ phase = "ready" /\ call.op = "prepare" /\ call.exc = "none" /\ call.arg[2]
    /\ Len(encoders_num_id_vecs) = 2
    /\ encoders_num_id_vecs[1] >= 2
    /\ encoders_num_id_vecs[2] >= 1

\* The prompt a call of update_prompt was given, None read as "".
RawPrompt == OrEmpty(call.arg)

\* hay holds needle as a substring.
Contains(hay, needle) == \E k \in 1..(Len(hay) + 1) : LiteralAt(hay, k, needle)

\* p[a..b] is a whole word of p: word characters, with none next to it.
IsWord(p, a, b) ==
    /\ 1 <= a /\ a <= b /\ b <= Len(p)
    /\ \A k \in a..b : IsWordChar(p[k])
    /\ (a = 1 \/ ~IsWordChar(p[a - 1]))
    /\ (b = Len(p) \/ ~IsWordChar(p[b + 1]))

\* The positions at which the subject string stands as a whole word of p.
SubjectWordStarts(p, subj) ==
    {a \in 1..Len(p) : IsWord(p, a, a + Len(subj) - 1) /\ SubSeq(p, a, a + Len(subj) - 1) = subj}

\* The positions of an article "a", "an" or "the" that stands as a whole word
\* of p with nothing but white space between it and the subject word at a,
\* and of that white space.
ArticleBefore(p, a) ==
    UNION { IF /\ IsWord(p, c, c + Len(art) - 1)
               /\ SubSeq(p, c, c + Len(art) - 1) = art
               /\ c + Len(art) <= a - 1
               /\ \A k \in (c + Len(art))..(a - 1) : IsSpaceChar(p[k])
            THEN c..(a - 1) ELSE {} :
            c \in 1..Len(p), art \in { <<"a">>, <<"a", "n">>, <<"t", "h", "e">> } }

\* The positions update_prompt is to remove from p: every subject word, the
\* comma right after it, and the article before it.
RemovedPositions(p, subj) ==
    UNION { (a..(a + Len(subj) - 1))
              \cup (IF a + Len(subj) <= Len(p) /\ p[a + Len(subj)] = ","
                    THEN {a + Len(subj)} ELSE {})
              \cup ArticleBefore(p, a) :
            a \in SubjectWordStarts(p, subj) }

RECURSIVE KeepFrom(_, _, _)
\* p from position i on, without the positions in gone.
KeepFrom(p, i, gone) ==
    IF i > Len(p) THEN <<>>
    ELSE (IF i \in gone THEN <<>> ELSE <<p[i]>>) \o KeepFrom(p, i + 1, gone)

\* The characters placed in front of the prompt and after it: each arc2face
\* (each consistentID) encoder's string and one space.
FrontLen ==
    SumSeq([i \in 1..Len(placeholder_tokens_strs) |->
              IF adaface_encoder_types[i] = "arc2face"
              THEN Len(placeholder_tokens_strs[i]) + 1 ELSE 0])
BackLen ==
    SumSeq([i \in 1..Len(placeholder_tokens_strs) |->
              IF adaface_encoder_types[i] = "consistentID"
              THEN Len(placeholder_tokens_strs[i]) + 1 ELSE 0])

\* C8 (as claimed): for a raw prompt P without the subject word, what
\* update_prompt returns is P with token strings before and after it, and the
\* token string of every encoder, whatever its type, is among them: before P
\* for arc2face, after P for consistentID.
C8_EveryEncoderPlaced ==
    (call.op = "update_prompt" /\ SubjectWordStarts(RawPrompt, subject_string) = {})
    => \E a \in 0..Len(call.ret) :
          /\ a + Len(RawPrompt) <= Len(call.ret)
          /\ SubSeq(call.ret, a + 1, a + Len(RawPrompt)) = RawPrompt
          /\ \A i \in 1..Len(adaface_encoder_types) :
               LET front == SubSeq(call.ret, 1, a)
                   back == SubSeq(call.ret, a + Len(RawPrompt) + 1, Len(call.ret))
                   str == placeholder_tokens_strs[i]
               IN  IF adaface_encoder_types[i] = "arc2face" THEN Contains(front, str)
                   ELSE IF adaface_encoder_types[i] = "consistentID" THEN Contains(back, str)
                   ELSE Contains(front, str) \/ Contains(back, str)

\* C9: what update_prompt returns is, between the token strings, the raw
\* prompt without its subject words, the comma right after each and the
\* article "a", "an" or "the" that white space alone separates from it; every
\* other character, those of longer words that contain the subject string
\* among them, is kept in place.
C9_RemovesExactly ==
    call.op = "update_prompt"
    => LET kept == KeepFrom(RawPrompt, 1, RemovedPositions(RawPrompt, subject_string))
       IN  /\ Len(call.ret) = FrontLen + Len(kept) + BackLen
           /\ SubSeq(call.ret, FrontLen + 1, FrontLen + Len(kept)) = kept

\* update_prompt has returned for "the z, on a zebra".
C9_Witness ==
    /\ call.op = "update_prompt"
    /\ call.arg = <<"t", "h", "e", " ", "z", ",", " ", "o", "n", " ", "a", " ", "z", "e", "b", "r", "a">>
    /\ Len(adaface_encoder_types) = 2

RECURSIVE SplitFrom(_, _, _)
\* p.split() from position i on, cur being the word read so far.
SplitFrom(p, i, cur) ==
    IF i > Len(p) THEN (IF cur = <<>> THEN <<>> ELSE <<cur>>)
    ELSE IF IsSpaceChar(p[i])
         THEN (IF cur = <<>> THEN <<>> ELSE <<cur>>) \o SplitFrom(p, i + 1, <<>>)
         ELSE SplitFrom(p, i + 1, Append(cur, p[i]))

\* z_0_0 ... z_0_15, in the jungle, z_1_0 ... z_1_3
E2EWords ==
    << <<"z", "_", "0", "_", "0">>,
       <<"z", "_", "0", "_", "1">>,
       <<"z", "_", "0", "_", "2">>,
       <<"z", "_", "0", "_", "3">>,
       <<"z", "_", "0", "_", "4">>,
       <<"z", "_", "0", "_", "5">>,
       <<"z", "_", "0", "_", "6">>,
       <<"z", "_", "0", "_", "7">>,
       <<"z", "_", "0", "_", "8">>,
       <<"z", "_", "0", "_", "9">>,
       <<"z", "_", "0", "_", "1", "0">>,
       <<"z", "_", "0", "_", "1", "1">>,
       <<"z", "_", "0", "_", "1", "2">>,
       <<"z", "_", "0", "_", "1", "3">>,
       <<"z", "_", "0", "_", "1", "4">>,
       <<"z", "_", "0", "_", "1", "5">>,
       <<"i", "n">>,
       <<"t", "h", "e">>,
       <<"j", "u", "n", "g", "l", "e">>,
       <<"z", "_", "1", "_", "0">>,
       <<"z", "_", "1", "_", "1">>,
       <<"z", "_", "1", "_", "2">>,
       <<"z", "_", "1", "_", "3">> >>

\* The wrapper of arc2face (16 vectors) and consistentID (4 vectors) with
\* subject string "z" has returned from update_prompt("a z in the jungle").
C10_Witness ==
    /\ call.op = "update_prompt" /\ call.exc = "none"
    /\ call.arg = E2EPrompt
    /\ adaface_encoder_types = <<"arc2face", "consistentID">>
    /\ encoders_num_id_vecs = <<16, 4>>
    /\ subject_string = <<"z">>

\* C10: for that wrapper and that prompt, what update_prompt returns is, white
\* space apart, z_0_0 ... z_0_15, then "in the jungle", then z_1_0 ... z_1_3.
C10_EndToEnd ==
    C10_Witness => SplitFrom(call.ret, 1, <<>>) = E2EWords

RECURSIVE FrontStrs(_, _, _)
\* The token strings of the arc2face encoders from encoder i on, the last
\* encoder's first, one space after each.
FrontStrs(types, strs, i) ==
    IF i > Len(strs) THEN <<>>
    ELSE FrontStrs(types, strs, i + 1)
           \o (IF types[i] = "arc2face" THEN strs[i] \o Space ELSE <<>>)

RECURSIVE BackStrs(_, _, _)
\* The token strings of the consistentID encoders from encoder i on, in the
\* encoders' order, one space before each.
BackStrs(types, strs, i) ==
    IF i > Len(strs) THEN <<>>
    ELSE (IF types[i] = "consistentID" THEN Space \o strs[i] ELSE <<>>)
           \o BackStrs(types, strs, i + 1)

\* The composed prompt as a function of the raw prompt, the subject string,
\* the encoder types and the token strings, and of nothing else.
ComposedFrom(prompt, subj, types, strs) ==
    FrontStrs(types, strs, 1)
      \o KeepFrom(prompt, 1, RemovedPositions(prompt, subj))
      \o BackStrs(types, strs, 1)

\* C11: what update_prompt returns is determined by the raw prompt and the
\* wrapper's subject string, encoder types and token strings; no call on a
\* constructed wrapper changes these three, so two calls with the same prompt
\* return the same string whatever was called in between; and update_prompt
\* changes no field of the wrapper, the tokenizer or the embedding table.
C11_UpdatePromptPure ==
    [][ /\ call'.op = "update_prompt"
            => /\ call'.exc = "none"
               /\ call'.ret = ComposedFrom(OrEmpty(call'.arg), subject_string,
                                           adaface_encoder_types, placeholder_tokens_strs)
               /\ UNCHANGED << config_vars, pipeline_vars, tokenizer, token_embeds, token_vars,
                               all_teacher_neg_id_prompt_embs, attrs, phase >>
        /\ phase = "ready"
            => UNCHANGED << subject_string, adaface_encoder_types, placeholder_tokens_strs >> ]_vars

\* update_prompt("a z in the jungle") has returned on a wrapper of two
\* encoders after prepare_adaface_embeddings stored a negative batch and
\* subject embeddings were written into the table.
C11_Witness ==
    /\ call.op = "update_prompt" /\ call.arg = E2EPrompt
    /\ Len(adaface_encoder_types) = 2
    /\ "all_teacher_neg_id_prompt_embs" \in attrs
    /\ \E k \in 1..Len(placeholder_token_ids) :
          token_embeds[placeholder_token_ids[k] + 1].kind \in {"subj", "arg"}

\* C12: update_prompt(None) returns, without raising, what update_prompt("")
\* returns: the token strings of the arc2face encoders, each with a space
\* after it, then those of the consistentID encoders, each with a space
\* before it; every word of it is a placeholder token.
C12_NoneAsEmpty ==
    (call.op = "update_prompt" /\ call.arg \in {NonePrompt, <<>>})
    => /\ call.exc = "none"
       /\ call.ret = FrontStrs(adaface_encoder_types, placeholder_tokens_strs, 1)
                       \o BackStrs(adaface_encoder_types, placeholder_tokens_strs, 1)
       /\ Range(SplitFrom(call.ret, 1, <<>>)) \subseteq Range(all_placeholder_tokens)

\* update_prompt(None) has returned on a wrapper of an arc2face and a
\* consistentID encoder that both have id vectors.
C12_Witness ==
    /\ call.op = "update_prompt" /\ call.arg = NonePrompt
    /\ adaface_encoder_types = <<"arc2face", "consistentID">>
    /\ encoders_num_id_vecs[1] >= 1 /\ encoders_num_id_vecs[2] >= 1
    /\ Len(SplitFrom(call.ret, 1, <<>>)) = SumSeq(encoders_num_id_vecs)

\* The table tbl1 is tbl0 with the rows embs at the placeholder ids and every
\* other row as it was.
RowsInjected(tbl0, tbl1, embs) ==
    /\ Len(tbl1) = Len(tbl0)
    /\ \A k \in 1..Len(placeholder_token_ids) :
          tbl1[placeholder_token_ids[k] + 1] = embs[k]
    /\ \A r \in 1..Len(tbl0) :
          (r - 1) \notin Range(placeholder_token_ids) => tbl1[r] = tbl0[r]

\* C13: on a constructed wrapper every update_text_encoder_subj_embs with as
\* many rows as there are placeholder ids, and every
\* prepare_adaface_embeddings that updates the text encoder, returns and
\* leaves its rows at the placeholder ids, whatever was injected before; the
\* ids and the table's row count do not change through it, and no other call
\* changes the table, so the rows at the ids are those injected last.
C13_ReInjection ==
    [][ phase = "ready"
        => /\ (call'.op = "inject" /\ Len(call'.arg) = Len(placeholder_token_ids))
                => /\ call'.exc = "none"
                   /\ RowsInjected(token_embeds, token_embeds', call'.arg)
           /\ (call'.op = "prepare" /\ call'.arg[2] /\ call'.exc # "EncoderError")
                => /\ call'.exc = "none"
                   /\ RowsInjected(token_embeds, token_embeds', call'.ret[1])
           /\ call'.op \in {"inject", "prepare"}
                => /\ Len(token_embeds') = Len(token_embeds)
                   /\ placeholder_token_ids' = placeholder_token_ids
           /\ (call'.op # "inject" /\ ~(call'.op = "prepare" /\ call'.arg[2]))
                => token_embeds' = token_embeds ]_vars

\* An injection of the caller's rows has returned on a wrapper of two or more
\* placeholder ids on which prepare_adaface_embeddings had run before.
C13_Witness ==
    /\ phase = "ready" /\ call.op = "inject" /\ call.exc = "none"
    /\ Len(call.arg) = Len(placeholder_token_ids)
    /\ Len(placeholder_token_ids) >= 2
    /\ "all_teacher_neg_id_prompt_embs" \in attrs
    /\ all_teacher_neg_id_prompt_embs # <<>>

\* C14 (as claimed): a pipeline name outside the declared set makes
\* initialize_pipeline raise before any model is loaded and before the
\* tokenizer is extended; no wrapper of such a name is constructed, and
\* encode_prompt never takes its fall-through branch.
C14_RejectedBeforeAnyLoad ==
    [][ /\ (call'.op = "initialize_pipeline" /\ pipeline_name \notin DeclaredPipelineNames)
            => /\ call'.exc = "ValueError"
               /\ call'.ret = <<>>
               /\ id2ada_prompt_encoders' = <<>>
               /\ pipeline' = NoPipeline
               /\ tokenizer' = tokenizer
        /\ phase' \in {"constructing", "ready"} => pipeline_name' \in DeclaredPipelineNames
        /\ call'.op \in {"encode_prompt", "forward"}
            => (pipeline_name \in DeclaredPipelineNames /\ call'.exc # "breakpoint") ]_vars

\* C14 (amended): a pipeline name outside the declared set makes
\* initialize_pipeline raise ValueError before the diffusion pipeline is
\* loaded and before the tokenizer or the table is touched, the constructor
\* ending there; the identity encoders, and the VAE and the text encoder that
\* were asked for, are loaded by then.  No wrapper of such a name is
\* constructed, so none reaches encode_prompt or forward, and encode_prompt
\* never takes its fall-through branch.
C14_UnknownNameRejected ==
    [][ /\ (call'.op = "initialize_pipeline" /\ pipeline_name \notin DeclaredPipelineNames)
            => /\ call'.exc = "ValueError"
               /\ phase' = "failed"
               /\ pipeline' = NoPipeline
               /\ "pipeline" \notin Range(call'.ret)
               /\ call'.ret = [i \in 1..Len(adaface_encoder_types) |-> "id2ada_prompt_encoder"]
                                \o (IF call'.arg[1] THEN <<"vae">> ELSE <<>>)
                                \o (IF call'.arg[2] THEN <<"text_encoder">> ELSE <<>>)
               /\ Len(id2ada_prompt_encoders') = Len(adaface_encoder_types)
               /\ tokenizer' = tokenizer
               /\ token_embeds' = token_embeds
               /\ UNCHANGED token_vars
        /\ phase' \in {"constructing", "ready"} => pipeline_name' \in DeclaredPipelineNames
        /\ call'.op \in {"encode_prompt", "forward"}
            => (pipeline_name \in DeclaredPipelineNames /\ call'.exc # "breakpoint") ]_vars

\* The constructor of a wrapper of two encoders, asked for the 840k-step VAE
\* and the DreamShaper text encoder, has raised on an undeclared pipeline name.
C14_Witness ==
    /\ phase = "failed" /\ call.op = "initialize_pipeline" /\ call.exc = "ValueError"
    /\ pipeline_name = UnknownPipelineName
    /\ call.arg = <<TRUE, TRUE>>
    /\ Len(adaface_encoder_types) = 2

\* C15: what prepare_adaface_embeddings returns is two batches of
\* sum(num_id_vecs) rows each; row Offset(i) + j of the first is row j of
\* encoder i's subject embeddings, and row Offset(i) + j of the second is row j
\* of encoder i's negative embeddings, or a zero row when encoder i returned
\* none.
C15_PrepareReturn ==
    (call.op = "prepare" /\ call.exc = "none")
    => /\ Len(call.ret[1]) = SumSeq(encoders_num_id_vecs)
       /\ Len(call.ret[2]) = SumSeq(encoders_num_id_vecs)
       /\ \A i \in 1..Len(encoders_num_id_vecs) :
            \A j \in 1..encoders_num_id_vecs[i] :
               /\ call.ret[1][Offset(i) + j] = SubjRow(call.arg[1], i - 1, j - 1)
               /\ call.ret[2][Offset(i) + j]
                    = IF call.arg[3][i] THEN NegRow(call.arg[1], i - 1, j - 1) ELSE ZeroRow

\* prepare_adaface_embeddings has returned for an arc2face encoder, which
\* returned no negative embeddings, followed by a consistentID encoder, which
\* returned them, of two or more id vectors each.
C15_Witness ==
    /\ call.op = "prepare" /\ call.exc = "none"
    /\ adaface_encoder_types = <<"arc2face", "consistentID">>
    /\ encoders_num_id_vecs[1] >= 2 /\ encoders_num_id_vecs[2] >= 2
    /\ call.arg[3] = <<FALSE, TRUE>>
    /\ call.ret[2][1] = ZeroRow

C17_ExtendAllOrNothing ==
    [][ call'.op = "extend"
        => \/ /\ \A t \in RequestedTokens : t \notin Range(tokenizer) /\ t \in Range(tokenizer')
              /\ Len(token_embeds') = Len(tokenizer')
              /\ call'.exc = "none"
           \/ /\ tokenizer' = tokenizer
              /\ token_embeds' = token_embeds ]_vars

\* C18: apply_neg_img_prompt is False when the constructor returns; while it
\* is False, encode_prompt returns and its negative-prompt embedding is the
\* pipeline's own (None for flux), for every pipeline name; once it is True on
\* a text2img wrapper whose prepare_adaface_embeddings has stored a negative
\* batch of K rows, K within the sequence length, encode_prompt returns the
\* pipeline's negative-prompt embedding with its last K positions replaced by
\* the batch.
C18_NegBlendingSwitch ==
    /\ (phase = "ready" /\ call.op = "extend") => ~apply_neg_img_prompt
    /\ (call.op = "encode_prompt" /\ ~apply_neg_img_prompt)
         => /\ call.exc = "none"
            /\ call.ret[2] = IF pipeline_name = "flux" THEN <<>>
                             ELSE << [k \in 1..SeqLen |-> NegPromptRow(k - 1)] >>
    /\ (call.op = "encode_prompt" /\ apply_neg_img_prompt /\ pipeline_name = "text2img"
           /\ "all_teacher_neg_id_prompt_embs" \in attrs
           /\ Len(all_teacher_neg_id_prompt_embs) <= SeqLen)
         => /\ call.exc = "none"
            /\ Len(call.ret[2]) = 1
            /\ Len(call.ret[2][1]) = SeqLen
            /\ \A k \in 1..SeqLen :
                 LET K == Len(all_teacher_neg_id_prompt_embs)
                 IN  call.ret[2][1][k] = IF k > SeqLen - K
                                         THEN all_teacher_neg_id_prompt_embs[k - (SeqLen - K)]
                                         ELSE NegPromptRow(k - 1)

\* encode_prompt has returned on a text2img wrapper with apply_neg_img_prompt
\* set and a stored negative batch of two rows, fewer than the sequence length.
C18_Witness ==
    /\ call.op = "encode_prompt" /\ call.exc = "none"
    /\ apply_neg_img_prompt /\ pipeline_name = "text2img"
    /\ Len(all_teacher_neg_id_prompt_embs) = 2
    /\ SeqLen > 2
    /\ call.ret[2][1][SeqLen] = all_teacher_neg_id_prompt_embs[2]
    /\ call.ret[2][1][1] = NegPromptRow(0)

\* The part of the long-context prompt long that follows the composed prompt.
FillerOf(long, composed) == SubSeq(long, Len(composed) + 1, Len(long))

\* C19: when encode_prompt or forward has called the text2img3 or the flux
\* pipeline's encode_prompt, the last prompt it passed is the composed prompt
\* followed by 256 times ", ", a filler in which no placeholder token and no
\* subject word occurs, and every prompt before it (two for text2img3, one for
\* flux) is the composed prompt.
C19_T5Filler ==
    (call.op \in {"encode_prompt", "forward"} /\ pipeline_name \in {"text2img3", "flux"})
    => LET composed == ComposedFrom(OrEmpty(call.arg[1]), subject_string,
                                    adaface_encoder_types, placeholder_tokens_strs)
           prompts == call.sent[1].prompts
           long == prompts[Len(prompts)]
           filler == FillerOf(long, composed)
       IN  /\ Len(prompts) = IF pipeline_name = "text2img3" THEN 3 ELSE 2
           /\ \A k \in 1..(Len(prompts) - 1) : prompts[k] = composed
           /\ SubSeq(long, 1, Len(composed)) = composed
           /\ Len(filler) = 2 * T5FillerCount
           /\ \A k \in 1..T5FillerCount : filler[2 * k - 1] = "," /\ filler[2 * k] = " "
           /\ \A t \in Range(all_placeholder_tokens) : ~Contains(filler, t)
           /\ SubjectWordStarts(filler, subject_string) = {}

\* encode_prompt("a z in the jungle") has called the text2img3 pipeline of a
\* wrapper of two encoders with three prompts.
C19_Witness ==
    /\ call.op = "encode_prompt" /\ call.exc = "none"
    /\ pipeline_name = "text2img3"
    /\ call.arg[1] = E2EPrompt
    /\ Len(adaface_encoder_types) = 2
    /\ Len(call.sent[1].prompts) = 3
    /\ Len(call.sent[1].prompts[3]) > Len(call.sent[1].prompts[1])

\* C20 (as claimed): in the call forward makes to the pipeline of a text2img,
\* img2img, text2img3 or flux wrapper, prompt_embeds, negative_prompt_embeds
\* when it is passed and not None, pooled_prompt_embeds and
\* negative_pooled_prompt_embeds when they are passed all have a leading
\* dimension of out_image_count.
C20_BatchDimension ==
    (call.op = "forward" /\ call.exc = "none"
        /\ pipeline_name \in {"text2img", "img2img", "text2img3", "flux"})
    => LET sampler == call.sent[Len(call.sent)]
           out_image_count == call.arg[4]
       IN  /\ sampler.fn = "__call__"
           /\ Len(sampler.prompt_embeds) = out_image_count
           /\ ("negative_prompt_embeds" \in sampler.passed
                  /\ sampler.negative_prompt_embeds # NoTensor)
                => Len(sampler.negative_prompt_embeds) = out_image_count
           /\ "pooled_prompt_embeds" \in sampler.passed
                => Len(sampler.pooled_prompt_embeds) = out_image_count
           /\ "negative_pooled_prompt_embeds" \in sampler.passed
                => Len(sampler.negative_pooled_prompt_embeds) = out_image_count

\* C21: load_unet_from_file decides from the first key of the state dict and
\* applies the decision to every key.  When the first key starts with
\* "model.diffusion_model" the legacy converter gets every key unchanged; when
\* it starts with "diffusion_model" the converter gets every key with "model."
\* in front; otherwise the state dict is returned as loaded, without
\* conversion.  A path that is not a file raises ValueError.
C21_KeyPrefixSniffing ==
    call.op = "load_unet_from_file" =>
        LET is_file == call.arg[2]
            state_dict == call.arg[3]
        IN  /\ ~is_file => call.exc = "ValueError"
            /\ (is_file /\ state_dict # <<>>) =>
                 /\ call.exc = "none"
                 /\ Len(call.ret.keys) = Len(state_dict)
                 /\ IF StartsWith(state_dict[1], ModelDiffusionModel) THEN
                        call.ret.converted /\ call.ret.keys = state_dict
                    ELSE IF StartsWith(state_dict[1], DiffusionModel) THEN
                        /\ call.ret.converted
                        /\ \A k \in 1..Len(state_dict) :
                              call.ret.keys[k] = ModelDot \o state_dict[k]
                    ELSE ~call.ret.converted /\ call.ret.keys = state_dict

\* A file whose first key starts with "diffusion_model" and whose second key
\* starts with "model.diffusion_model" has been loaded and converted.
C21_Witness ==
    /\ call.op = "load_unet_from_file"
    /\ call.exc = "none"
    /\ Len(call.arg[3]) >= 2
    /\ StartsWith(call.arg[3][1], DiffusionModel)
    /\ StartsWith(call.arg[3][2], ModelDiffusionModel)
    /\ call.ret.converted
    /\ call.ret.keys[2] = ModelDot \o ModelDiffusionModel \o <<".", "w">>

\* C22: on a constructed wrapper whose apply_neg_img_prompt is False, as the
\* constructor leaves it, encode_prompt and forward called before any
\* prepare_adaface_embeddings do not read all_teacher_neg_id_prompt_embs, which
\* only that method assigns: no AttributeError is raised, encode_prompt
\* returns, with the negative embedding as the pipeline returned it, and
\* forward fails only for a teacher batch that does not fit or for a
\* pipeline that has no UNet.
C22_GenerateBeforeInjection ==
    (/\ call.op \in {"encode_prompt", "forward"}
     /\ "all_teacher_neg_id_prompt_embs" \notin attrs
     /\ ~apply_neg_img_prompt) =>
        /\ call.exc # "AttributeError"
        /\ call.op = "encode_prompt" =>
             /\ call.exc = "none"
             /\ call.ret[1] = PromptEmbeds
             /\ call.ret[2] \in {NegativePromptEmbeds, NoTensor}
        /\ call.op = "forward" =>
             \/ call.exc = "none" /\ call.ret = call.arg[4]
             \/ /\ call.exc = "RuntimeError"
                /\ call.arg[3] # NoTensor
                /\ \/ Len(call.arg[3][1]) > SeqLen
                   \/ Len(call.arg[3][1]) = 0
                   \/ RowWidth(call.arg[3][1][1]) # HiddenDim
             \/ call.exc = "PipelineError" /\ pipeline_name = NoneName

\* forward has returned images on a text2img wrapper on which
\* prepare_adaface_embeddings was never called.
C22_Witness ==
    /\ call.op = "forward"
    /\ call.exc = "none"
    /\ pipeline_name = "text2img"
    /\ ~apply_neg_img_prompt
    /\ "all_teacher_neg_id_prompt_embs" \notin attrs
    /\ all_teacher_neg_id_prompt_embs = <<>>
    /\ \A r \in 1..Len(token_embeds) : token_embeds[r].kind \in {"orig", "fresh"}

\* C23: update_prompt, encode_prompt and forward leave the injected identity
\* as it is: a step of any of them changes neither the embedding table nor the
\* tokenizer, neither placeholder_token_ids nor the placeholder-token strings
\* nor the stored negative batch, so every generation after an inject reads
\* the rows that inject wrote.
C23_GenerationKeepsIdentity ==
    [][call'.op \in {"update_prompt", "encode_prompt", "forward"} =>
           UNCHANGED << token_embeds, tokenizer, placeholder_token_ids,
                        all_placeholder_tokens, placeholder_tokens_strs,
                        all_placeholder_tokens_str, all_teacher_neg_id_prompt_embs >>]_vars

\* forward has returned images on a wrapper whose placeholder rows hold the
\* embeddings prepare_adaface_embeddings injected and whose negative batch
\* is stored.
C23_Witness ==
    /\ call.op = "forward"
    /\ call.exc = "none"
    /\ "all_teacher_neg_id_prompt_embs" \in attrs
    /\ all_teacher_neg_id_prompt_embs # <<>>
    /\ placeholder_token_ids # <<>>
    /\ \A k \in 1..Len(placeholder_token_ids) :
          token_embeds[placeholder_token_ids[k] + 1].kind = "subj"

\* The call of forward that differs from the one recorded in ref_img_strength
\* alone, on the same wrapper.
OtherStrengthCall ==
    LET other == CHOOSE s \in RefImgStrengths : s # call.arg[5]
    IN  ForwardCall([call.arg EXCEPT ![5] = other],
                    EncodePromptResult(call.arg[1], OrDefaultNegative(call.arg[2]),
                                       call.sent[1].fn = "encode_prompt"),
                    call.arg[3], call.arg[4], other)

\* C24: on a text2img, text2img3 or flux wrapper, two calls of forward that
\* differ in ref_img_strength alone end the same way, hand the pipeline the
\* same arguments among those its class reads, and return as many images.
C24_StrengthNoOp ==
    (call.op = "forward" /\ pipeline_name \in {"text2img", "text2img3", "flux"}) =>
        LET twin == OtherStrengthCall
        IN  /\ twin.arg[5] # call.arg[5]
            /\ twin.exc = call.exc
            /\ twin.ret = call.ret
            /\ Len(twin.sent) = Len(call.sent)
            /\ call.exc = "none" =>
                 SamplingArgs(pipeline.cls, twin.sent[Len(twin.sent)])
                   = SamplingArgs(pipeline.cls, call.sent[Len(call.sent)])

\* forward has returned on a text2img wrapper, which passes strength to its
\* pipeline; the same call on an img2img wrapper has the pipeline read it.
C24_Witness ==
    /\ call.op = "forward"
    /\ call.exc = "none"
    /\ pipeline_name = "text2img"
    /\ "strength" \in call.sent[Len(call.sent)].passed
    /\ call.sent[Len(call.sent)].strength = call.arg[5]
    /\ OtherStrengthCall.sent # call.sent

\* What encode_prompt returned to the recorded call of forward.
EncodedForForward ==
    EncodePromptResult(call.arg[1], OrDefaultNegative(call.arg[2]),
                       call.sent[1].fn = "encode_prompt")

\* The recorded call of forward was given a teacher batch and encode_prompt
\* returned it a negative-prompt embedding.
BlendsTeacherBatch ==
    /\ call.op = "forward"
    /\ call.arg[3] # NoTensor
    /\ call.sent # <<>>
    /\ EncodedForForward.exc = "none"
    /\ EncodedForForward.ret[2] # NoTensor

\* The negative-prompt embedding handed to the pipeline holds, in every batch
\* element, rows in its last Len(rows) positions and before them what
\* encode_prompt returned.
TailIs(rows) ==
    LET sent == call.sent[Len(call.sent)].negative_prompt_embeds
        before == EncodedForForward.ret[2][1]
        L == Len(before)
        K == Len(rows)
    IN  /\ Len(sent) = call.arg[4]
        /\ \A b \in 1..Len(sent) :
              /\ Len(sent[b]) = L
              /\ \A k \in 1..K : sent[b][L - K + k] = rows[k]
              /\ \A k \in 1..(L - K) : sent[b][k] = before[k]

\* C25 as stated: with a negative-prompt embedding of L positions and a
\* teacher batch of K <= L rows, forward replaces exactly the last K positions
\* by the K rows in order; a batch with K > L or of another width makes
\* forward raise a shape error.
C25_TailBlending ==
    BlendsTeacherBatch =>
        LET rows == call.arg[3][1]
            L == Len(EncodedForForward.ret[2][1])
            fits == /\ Len(rows) <= L
                    /\ \A k \in 1..Len(rows) : RowWidth(rows[k]) = HiddenDim
        IN  IF fits THEN call.exc \in {"none", "PipelineError"} /\ TailIs(rows)
            ELSE call.exc = "RuntimeError"

\* C25, amended: a teacher batch of 1 <= K <= L rows of the embedding's width
\* replaces exactly the last K positions, in order, and leaves the first L - K
\* as encode_prompt returned them; rows of one column are accepted as well and
\* written expanded to the embedding's width; a batch of no row, of more than
\* L rows, or of a width that is neither the embedding's nor 1 makes forward
\* raise before the pipeline is called.
C25_TailBlendingWithinTorchRules ==
    BlendsTeacherBatch =>
        LET rows == call.arg[3][1]
            L == Len(EncodedForForward.ret[2][1])
            K == Len(rows)
        IN  IF K < 1 \/ K > L \/ \E k \in 1..K : RowWidth(rows[k]) \notin {HiddenDim, 1} THEN
                /\ call.exc = "RuntimeError"
                /\ \A k \in 1..Len(call.sent) : call.sent[k].fn # "__call__"
            ELSE
                /\ call.exc \in {"none", "PipelineError"}
                /\ TailIs([k \in 1..K |->
                             IF RowWidth(rows[k]) = HiddenDim THEN rows[k]
                             ELSE [kind |-> "expanded", batch |-> "", enc |-> 0,
                                   idx |-> rows[k].idx]])

\* forward has returned on a text2img wrapper given a teacher batch of two
\* rows: the pipeline got them in the last two positions of two images'
\* negative-prompt embedding, after the first row encode_prompt returned.
C25_Witness ==
    /\ BlendsTeacherBatch
    /\ call.exc = "none"
    /\ pipeline_name = "text2img"
    /\ call.arg[3] = << <<TeacherRow(0), TeacherRow(1)>> >>
    /\ call.arg[4] = 2
    /\ LET sent == call.sent[Len(call.sent)].negative_prompt_embeds
       IN  /\ Len(sent) = 2
           /\ sent[2][SeqLen - 1] = TeacherRow(0)
           /\ sent[2][SeqLen] = TeacherRow(1)
           /\ sent[2][SeqLen - 2] = NegPromptRow(SeqLen - 3)

\* C26: update_text_encoder_subj_embs, called by the caller or by
\* prepare_adaface_embeddings, changes only rows of the embedding table whose
\* index is in placeholder_token_ids: the table keeps its row count, every
\* row of another index is as before, and no row of a token of the original
\* vocabulary has an index in placeholder_token_ids (a row the table has
\* beyond the original vocabulary, as padding, may have).
C26_InjectFrame ==
    [][call'.op \in {"inject", "prepare"} =>
           /\ Len(token_embeds') = Len(token_embeds)
           /\ placeholder_token_ids' = placeholder_token_ids
           /\ \A r \in 1..Len(token_embeds) :
                 \/ token_embeds'[r] = token_embeds[r]
                 \/ /\ r - 1 \in Range(placeholder_token_ids)
                    /\ r > Len(BaseVocab)]_vars

\* An inject has returned: every placeholder row holds a row of its argument,
\* and the rows of the original vocabulary are in the table.
C26_Witness ==
    /\ call.op = "inject"
    /\ call.exc = "none"
    /\ Len(placeholder_token_ids) >= 2
    /\ \A k \in 1..Len(placeholder_token_ids) :
          token_embeds[placeholder_token_ids[k] + 1] = ArgRow(k - 1)
    /\ \A r \in 1..Len(BaseVocab) : token_embeds[r] = OrigRow(r - 1)

\* C27: when generate_adaface_embeddings of an encoder raises,
\* prepare_adaface_embeddings raises it to the caller and returns nothing, no
\* row of the embedding table has been written, and
\* all_teacher_neg_id_prompt_embs is what it was (unassigned when it was
\* unassigned).
C27_EncoderFailureWritesNothing ==
    [][(call'.op = "prepare" /\ call'.exc = "EncoderError") =>
           /\ call'.ret = <<>>
           /\ UNCHANGED << token_embeds, all_teacher_neg_id_prompt_embs, attrs,
                           placeholder_token_ids, tokenizer >>]_vars

\* An encoder has failed for subject2 on a wrapper that holds the rows and the
\* negative batch of subject1: they are still those of subject1.
C27_Witness ==
    /\ call.op = "prepare"
    /\ call.exc = "EncoderError"
    /\ call.arg[1] = "subject2"
    /\ call.arg[2]
    /\ "all_teacher_neg_id_prompt_embs" \in attrs
    /\ placeholder_token_ids # <<>>
    /\ \A k \in 1..Len(placeholder_token_ids) :
          /\ token_embeds[placeholder_token_ids[k] + 1].kind = "subj"
          /\ token_embeds[placeholder_token_ids[k] + 1].batch = "subject1"
    /\ \E k \in 1..Len(all_teacher_neg_id_prompt_embs) :
          all_teacher_neg_id_prompt_embs[k].batch = "subject1"

\* C28: on a constructed wrapper placeholder_tokens_strs[i] is, for every
\* encoder i, that encoder's own tokens "{subject_string}_{i}_{j}" joined by
\* single spaces (the empty string for an encoder with no id vector), and
\* all_placeholder_tokens_str is those strings joined by " | ".
C28_OwnTokensStr ==
    phase = "ready" =>
        /\ Len(placeholder_tokens_strs) = Len(encoders_num_id_vecs)
        /\ \A i \in 1..Len(encoders_num_id_vecs) :
              placeholder_tokens_strs[i]
                = Join([j \in 1..encoders_num_id_vecs[i] |->
                           PlaceholderToken(subject_string, i - 1, j - 1)], Space)
        /\ all_placeholder_tokens_str = Join(placeholder_tokens_strs, Bar)

\* The tokens of encoder i (1-based) in their order, a space between them.
OwnGroup(i) ==
    Join([j \in 1..encoders_num_id_vecs[i] |->
             PlaceholderToken(subject_string, i - 1, j - 1)], Space)

\* C29: with two encoders of the same kind, update_prompt returns, for two
\* consistentID encoders, the prompt without its subject words, then the
\* token string of the first declared encoder, then that of the second; for
\* two arc2face encoders, the token string of the second declared encoder,
\* then that of the first, then the prompt; a space separates them, and the
\* token string of an encoder that has id vectors is its tokens in their
\* order.
C29_PlacementOrder ==
    (/\ call.op = "update_prompt"
     /\ Len(adaface_encoder_types) = 2
     /\ adaface_encoder_types[1] = adaface_encoder_types[2]) =>
        LET text == KeepFrom(RawPrompt, 1, RemovedPositions(RawPrompt, subject_string))
            group == placeholder_tokens_strs
        IN  /\ Len(group) = 2
            /\ \A i \in 1..2 : encoders_num_id_vecs[i] > 0 => group[i] = OwnGroup(i)
            /\ adaface_encoder_types[1] = "consistentID" =>
                 call.ret = text \o Space \o group[1] \o Space \o group[2]
            /\ adaface_encoder_types[1] = "arc2face" =>
                 call.ret = group[2] \o Space \o group[1] \o Space \o text

\* update_prompt has returned on a wrapper of two arc2face encoders with two
\* id vectors each: the prompt starts with the second encoder's tokens.
C29_Witness ==
    /\ call.op = "update_prompt"
    /\ call.arg = E2EPrompt
    /\ adaface_encoder_types = <<"arc2face", "arc2face">>
    /\ encoders_num_id_vecs = <<2, 2>>
    /\ LiteralAt(call.ret, 1,
                 <<"z", "_", "1", "_", "0", " ", "z", "_", "1", "_", "1", " ",
                   "z", "_", "0", "_", "0", " ", "z", "_", "0", "_", "1", " ">>)

====
